---------------------------- MODULE Spec2Model ----------------------------
(***************************************************************************)
(* Model of the search subsystem of databaseSnake (package dbsearcher):    *)
(* the FileIndexer (search/indexer.py), the parsers (search/parsers.py)    *)
(* and the SearchEngine coordinator (search/engine.py).                    *)
(*                                                                         *)
(* Text is modelled as sequences of one-character strings.  A file on disk *)
(* is the sequence of records its reader produces (lines for .txt/.sql,    *)
(* rows of fields for .csv) together with the record at which reading it   *)
(* fails, if any.  The filesystem changes only between coordinator calls.  *)
(* A call ends in pc = "returned" with its outcome in ret; the caller then *)
(* takes the outcome (Resume) before anything else happens.                *)
(*                                                                         *)
(* Spec is the coordinator with its private File Index.  IndexerSpec is a  *)
(* FileIndexer used on its own (refresh, invalidate, the four reads).      *)
(* ReaderSpec is one parser applied to one file given byte by byte: the    *)
(* two read strategies of read_lines, and csv.reader, are computed there   *)
(* from the bytes.  FileSearchSpec is the coordinator's _search_file on    *)
(* one such file, under every configuration and mmap threshold.            *)
(***************************************************************************)
EXTENDS Integers, Sequences, FiniteSets, Bags, TLC

VARIABLES
    config,     \* SearchConfig of the coordinator (immutable after Init)
    disk,       \* the root directory as it is on disk now
    indexer,    \* FileIndexer: [index, is_stale]
    cache,      \* SearchEngine._result_cache: normalized query -> result list
    pc,         \* where the one in-progress search_parallel call stands
    par,        \* locals of the in-progress search_parallel call
    ret,        \* what the call that just returned did and handed back
    prev,       \* what is remembered of earlier calls: the call before this
                \* one (a search that returned, or clear_cache); for a File
                \* Index on its own, its last scan that ran to completion
    rd,         \* a file's bytes and what each read strategy, a parser and
                \* the coordinator's _search_file yielded for them
    created     \* for each cached query, the run that stored its entry:
                \* its mode, the list it returned and its files_searched

vars == <<config, disk, indexer, cache, pc, par, ret, prev, rd, created>>

----------------------------------------------------------------------------
(* Bounds *)

\* largest max_results a coordinator is configured with
MaxResults == 3
\* largest per-call workers argument of search_parallel
MaxWorkers == 2
\* longest file content, in characters, a reader is applied to
MaxBytes == 4

\* SearchConfig.parallel_workers default
DEFAULT_PARALLEL_WORKERS == 4

\* the size, in bytes, above which a parser built without an argument reads
\* through the memory map (10 MB); also SearchConfig.use_mmap_threshold's
\* default
MMAP_THRESHOLD_BYTES == 10485760

----------------------------------------------------------------------------
(* Text *)

\* str.casefold on the alphabet of the model
CaseFold(c) == IF c = "A" THEN "a" ELSE IF c = "B" THEN "b" ELSE c

FoldStr(s) == [i \in 1..Len(s) |-> CaseFold(s[i])]

\* the whitespace str.strip() removes, of the characters used here
IsSpace(c) == c \in {" ", "\t", "\r", "\n"}

RECURSIVE LStrip(_)
LStrip(s) == IF s # <<>> /\ IsSpace(Head(s)) THEN LStrip(Tail(s)) ELSE s

RECURSIVE RStrip(_)
RStrip(s) ==
    IF s # <<>> /\ IsSpace(s[Len(s)]) THEN RStrip(SubSeq(s, 1, Len(s) - 1)) ELSE s

\* Strip that removes leading whitespace only
StripLeadingOnly(s) == LStrip(s)

\* str.strip()
Strip(s) == RStrip(LStrip(s))

\* needle in hay
Contains(needle, hay) ==
    \E i \in 0..(Len(hay) - Len(needle)) :
        SubSeq(hay, i + 1, i + Len(needle)) = needle

\* JoinRow with a bare comma between the fields
RECURSIVE JoinRowComma(_)
JoinRowComma(row) ==
    IF row = <<>> THEN <<>>
    ELSE IF Len(row) = 1 THEN row[1]
    ELSE row[1] \o <<",">> \o JoinRowComma(Tail(row))

\* ", ".join(row)
RECURSIVE JoinRow(_)
JoinRow(row) ==
    IF row = <<>> THEN <<>>
    ELSE IF Len(row) = 1 THEN row[1]
    ELSE row[1] \o <<",", " ">> \o JoinRow(Tail(row))

\* pathlib suffix.lower()
LowerSuffix(sfx) ==
    IF sfx = ".TXT" THEN ".txt"
    ELSE IF sfx = ".CSV" THEN ".csv"
    ELSE IF sfx = ".SQL" THEN ".sql"
    ELSE sfx

\* Truncate without the slice: the accumulator is returned whole
TruncateOff(s, n) == s

\* all[:n]
Truncate(s, n) == SubSeq(s, 1, IF Len(s) < n THEN Len(s) ELSE n)


----------------------------------------------------------------------------
(* The filesystem *)

\* SearchConfig.supported_extensions default
DefaultExtensions == {".csv", ".txt", ".sql"}

File(stem, sfx, size, recs) ==
    [name |-> <<stem, sfx>>, isFile |-> TRUE, statOk |-> TRUE, size |-> size,
     recs |-> recs, failAt |-> 0, failKind |-> "none"]

\* a file whose reader raises when record number `at` is pulled
Broken(stem, sfx, size, recs, at, kind) ==
    [name |-> <<stem, sfx>>, isFile |-> TRUE, statOk |-> TRUE, size |-> size,
     recs |-> recs, failAt |-> at, failKind |-> kind]

SubDir(stem, sfx) ==
    [name |-> <<stem, sfx>>, isFile |-> FALSE, statOk |-> TRUE, size |-> 0,
     recs |-> <<>>, failAt |-> 0, failKind |-> "none"]

\* a regular file whose stat() raises an OS error
Unstatable(stem, sfx) ==
    [name |-> <<stem, sfx>>, isFile |-> TRUE, statOk |-> FALSE, size |-> 0,
     recs |-> <<>>, failAt |-> 0, failKind |-> "none"]

DiskIds == {"D1", "D2", "D3", "D4", "D5", "D6"}

\* The directory images the filesystem moves between: D1 healthy, with a
\* subdirectory named like a text file and a file that cannot be stat-ed, D2
\* with a csv file that breaks after its first row and a .log file, D3 with
\* unreadable files only,
\* D4 with a root path that is no directory, D5 with no root at all, D6 with
\* a listing that raises an OS error after its first entry.
Dir(d) ==
    CASE d = "D1" ->
           [root |-> "dir", listFailAt |-> 0,
            entries |-> <<
              File("b", ".CSV", 2, << << <<"x">> >>, << <<"a">>, <<"x">> >> >>),
              SubDir("sub", ".txt"),
              File("a", ".txt", 3, << <<"a">>, <<"b">>, <<" ", "A">> >>),
              File("c", ".sql", 1, << <<"x">> >>),
              File("e", ".md", 1, << <<"a">> >>),
              Unstatable("f", ".txt") >>]
      [] d = "D2" ->
           [root |-> "dir", listFailAt |-> 0,
            entries |-> <<
              File("a", ".txt", 2, << <<"x">>, <<"a">> >>),
              Broken("b", ".csv", 2, << << <<"a">> >>, << <<"a">> >> >>,
                     2, "csv"),
              File("d", ".log", 1, << <<"a">> >>) >>]
      [] d = "D3" ->
           [root |-> "dir", listFailAt |-> 0,
            entries |-> <<
              Broken("a", ".txt", 1, << <<"a">> >>, 1, "os"),
              Broken("b", ".csv", 1, << << <<"a">> >> >>, 1, "csv"),
              Broken("c", ".sql", 1, << <<"a">> >>, 1, "other") >>]
      [] d = "D4" -> [root |-> "notdir", listFailAt |-> 0, entries |-> <<>>]
      [] d = "D5" -> [root |-> "missing", listFailAt |-> 0, entries |-> <<>>]
      [] d = "D6" ->
           [root |-> "dir", listFailAt |-> 2,
            entries |-> <<
              File("a", ".txt", 1, << <<"a">> >>),
              File("c", ".sql", 1, << <<"a">> >>) >>]

\* the entry of directory image d named `name`, as a set (empty when absent)
Lookup(d, name) ==
    {Dir(d).entries[i] : i \in {j \in 1..Len(Dir(d).entries) :
                                    Dir(d).entries[j].name = name}}

----------------------------------------------------------------------------
(* FileIndexer *)

\* FileIndexer._get_match_type
GetMatchType(extension) ==
    IF LowerSuffix(extension) = ".csv" THEN "CSV"
    ELSE IF LowerSuffix(extension) = ".txt" THEN "TXT"
    ELSE IF LowerSuffix(extension) = ".sql" THEN "SQL"
    ELSE "TXT"

\* self._index[file_path.name] = file_info on an insertion-ordered dict
DictPut(index, info) ==
    IF \E i \in 1..Len(index) : index[i].name = info.name
    THEN [i \in 1..Len(index) |->
            IF index[i].name = info.name THEN info ELSE index[i]]
    ELSE Append(index, info)

\* ScanEntries that indexes a file whose stat() raises, with size 0
RECURSIVE ScanEntriesKeepsUnstatable(_, _, _, _)
ScanEntriesKeepsUnstatable(dsk, exts, i, index) ==
    IF dsk.listFailAt = i THEN [index |-> index, error |-> "FileAccessError"]
    ELSE IF i > Len(dsk.entries) THEN [index |-> index, error |-> "none"]
    ELSE LET e == dsk.entries[i]
             extension == LowerSuffix(e.name[2])
         IN  IF ~e.isFile \/ extension \notin exts
             THEN ScanEntriesKeepsUnstatable(dsk, exts, i + 1, index)
             ELSE ScanEntriesKeepsUnstatable(dsk, exts, i + 1,
                    DictPut(index, [name |-> e.name, size_bytes |-> e.size,
                                    match_type |-> GetMatchType(extension)]))

\* ScanEntries that ends the listing quietly when iterdir() raises
RECURSIVE ScanEntriesStopsQuietly(_, _, _, _)
ScanEntriesStopsQuietly(dsk, exts, i, index) ==
    IF dsk.listFailAt = i \/ i > Len(dsk.entries)
    THEN [index |-> index, error |-> "none"]
    ELSE LET e == dsk.entries[i]
             extension == LowerSuffix(e.name[2])
         IN  IF ~e.isFile \/ extension \notin exts \/ ~e.statOk
             THEN ScanEntriesStopsQuietly(dsk, exts, i + 1, index)
             ELSE ScanEntriesStopsQuietly(dsk, exts, i + 1,
                    DictPut(index, [name |-> e.name, size_bytes |-> e.size,
                                    match_type |-> GetMatchType(extension)]))

\* the loop of FileIndexer.refresh over iterdir(), from entry i on
RECURSIVE ScanEntries(_, _, _, _)
ScanEntries(dsk, exts, i, index) ==
    IF dsk.listFailAt = i THEN [index |-> index, error |-> "FileAccessError"]
    ELSE IF i > Len(dsk.entries) THEN [index |-> index, error |-> "none"]
    ELSE LET e == dsk.entries[i]
             extension == LowerSuffix(e.name[2])
         IN  IF ~e.isFile \/ extension \notin exts \/ ~e.statOk
             THEN ScanEntries(dsk, exts, i + 1, index)
             ELSE ScanEntries(dsk, exts, i + 1,
                    DictPut(index, [name |-> e.name, size_bytes |-> e.size,
                                    match_type |-> GetMatchType(extension)]))

\* Refresh that marks the index fresh before it scans
RefreshMarksFreshFirst(ix, d, exts) ==
    LET dsk == Dir(d) IN
    IF dsk.root = "missing"
    THEN [indexer |-> [index |-> <<>>, is_stale |-> FALSE], error |-> "none"]
    ELSE IF dsk.root = "notdir"
    THEN [indexer |-> [index |-> <<>>, is_stale |-> FALSE],
          error |-> "ConfigurationError"]
    ELSE LET r == ScanEntries(dsk, exts, 1, <<>>) IN
         [indexer |-> [index |-> r.index, is_stale |-> FALSE],
          error |-> r.error]

\* Refresh that takes a missing root for a root that is no directory
RefreshMissingIsError(ix, d, exts) ==
    LET dsk == Dir(d) IN
    IF dsk.root \in {"missing", "notdir"}
    THEN [indexer |-> [index |-> <<>>, is_stale |-> ix.is_stale],
          error |-> "ConfigurationError"]
    ELSE LET r == ScanEntries(dsk, exts, 1, <<>>) IN
         IF r.error # "none"
         THEN [indexer |-> [index |-> r.index, is_stale |-> ix.is_stale],
               error |-> r.error]
         ELSE [indexer |-> [index |-> r.index, is_stale |-> FALSE],
               error |-> "none"]

\* FileIndexer.refresh: the indexer it leaves and the error it raises
Refresh(ix, d, exts) ==
    LET dsk == Dir(d) IN
    IF dsk.root = "missing"
    THEN [indexer |-> [index |-> <<>>, is_stale |-> FALSE], error |-> "none"]
    ELSE IF dsk.root = "notdir"
    THEN [indexer |-> [index |-> <<>>, is_stale |-> ix.is_stale],
          error |-> "ConfigurationError"]
    ELSE LET r == ScanEntries(dsk, exts, 1, <<>>) IN
         IF r.error # "none"
         THEN [indexer |-> [index |-> r.index, is_stale |-> ix.is_stale],
               error |-> r.error]
         ELSE [indexer |-> [index |-> r.index, is_stale |-> FALSE],
               error |-> "none"]

\* Fresh that never rescans
FreshNever(ix, d, exts) == [indexer |-> ix, error |-> "none", scans |-> 0]

\* Fresh without the staleness test: every read rescans
FreshAlways(ix, d, exts) == Refresh(ix, d, exts) @@ [scans |-> 1]

\* Fresh that takes the index for fresh once a scan was tried, failed or not
FreshAfterAnyScan(ix, d, exts) ==
    IF ix.is_stale
    THEN LET r == Refresh(ix, d, exts) IN
         [indexer |-> [r.indexer EXCEPT !.is_stale = FALSE],
          error |-> r.error, scans |-> 1]
    ELSE [indexer |-> ix, error |-> "none", scans |-> 0]

\* Fresh that scans the directory on every read
FreshAlwaysScans(ix, d, exts) == Refresh(ix, d, exts) @@ [scans |-> 1]

\* the staleness rule shared by get_files, get_file_count and get_total_size:
\* refresh when stale; scans counts the directory scans performed
Fresh(ix, d, exts) ==
    IF ix.is_stale
    THEN Refresh(ix, d, exts) @@ [scans |-> 1]
    ELSE [indexer |-> ix, error |-> "none", scans |-> 0]

----------------------------------------------------------------------------
(* Parsers and SearchEngine._search_file *)

\* GetParserForFile with TextParser as the fallback for any other extension
GetParserForFileDefaultsToText(name) ==
    LET extension == LowerSuffix(name[2]) IN
    IF extension = ".csv" THEN "CSVParser"
    ELSE IF extension = ".sql" THEN "SQLParser"
    ELSE "TextParser"

\* get_parser_for_file: the parser class, or the error it raises
GetParserForFile(name) ==
    LET extension == LowerSuffix(name[2]) IN
    IF extension = ".txt" THEN "TextParser"
    ELSE IF extension = ".csv" THEN "CSVParser"
    ELSE IF extension = ".sql" THEN "SQLParser"
    ELSE "ConfigurationError"

\* the text a parser compares against the query
RecordText(parser, rec) == IF parser = "CSVParser" THEN JoinRow(rec) ELSE rec

\* RecordMatches that folds both texts whatever case_sensitive says
RecordMatchesIgnoresCase(parser, rec, query, case_sensitive) ==
    Contains(FoldStr(query), FoldStr(RecordText(parser, rec)))

\* RecordMatches that folds the line but not the query
RecordMatchesFoldsLineOnly(parser, rec, query, case_sensitive) ==
    IF case_sensitive
    THEN Contains(query, RecordText(parser, rec))
    ELSE Contains(query, FoldStr(RecordText(parser, rec)))

\* search_query in compare_line
RecordMatches(parser, rec, query, case_sensitive) ==
    IF case_sensitive
    THEN Contains(query, RecordText(parser, rec))
    ELSE Contains(FoldStr(query), FoldStr(RecordText(parser, rec)))

\* MakeResult whose content is the line as the reader yields it
MakeResultKeepsLine(parser, name, n, rec) ==
    [file_name |-> name,
     line_number |-> n,
     content |-> IF parser = "CSVParser" THEN JoinRow(rec) ELSE rec,
     match_type |-> IF parser = "CSVParser" THEN "CSV"
                    ELSE IF parser = "SQLParser" THEN "SQL" ELSE "TXT"]

\* the SearchResult a parser yields for record number n
MakeResult(parser, name, n, rec) ==
    [file_name |-> name,
     line_number |-> n,
     content |-> IF parser = "CSVParser" THEN JoinRow(rec) ELSE Strip(rec),
     match_type |-> IF parser = "CSVParser" THEN "CSV"
                    ELSE IF parser = "SQLParser" THEN "SQL" ELSE "TXT"]

\* the exception a parser turns a failing read into
RaisedBy(failKind) ==
    IF failKind = "os" THEN "FileAccessError"
    ELSE IF failKind = "csv" THEN "ParsingError"
    ELSE "Exception"

\* PullResults that inserts each match at the front of the list
RECURSIVE PullResultsPrepends(_, _, _, _, _, _)
PullResultsPrepends(e, parser, query, cfg, i, results) ==
    IF e.failAt = i
    THEN [results |-> results, error |-> RaisedBy(e.failKind), read |-> i - 1]
    ELSE IF i > Len(e.recs)
    THEN [results |-> results, error |-> "none", read |-> i - 1]
    ELSE IF RecordMatches(parser, e.recs[i], query, cfg.case_sensitive)
    THEN LET grown == <<MakeResult(parser, e.name, i, e.recs[i])>> \o results IN
         IF Len(grown) >= cfg.max_results
         THEN [results |-> grown, error |-> "none", read |-> i]
         ELSE PullResultsPrepends(e, parser, query, cfg, i + 1, grown)
    ELSE PullResultsPrepends(e, parser, query, cfg, i + 1, results)

\* PullResults without the early-termination test: the generator is drained
RECURSIVE PullResultsDrains(_, _, _, _, _, _)
PullResultsDrains(e, parser, query, cfg, i, results) ==
    IF e.failAt = i
    THEN [results |-> results, error |-> RaisedBy(e.failKind), read |-> i - 1]
    ELSE IF i > Len(e.recs)
    THEN [results |-> results, error |-> "none", read |-> i - 1]
    ELSE IF RecordMatches(parser, e.recs[i], query, cfg.case_sensitive)
    THEN PullResultsDrains(e, parser, query, cfg, i + 1,
            Append(results, MakeResult(parser, e.name, i, e.recs[i])))
    ELSE PullResultsDrains(e, parser, query, cfg, i + 1, results)

\* the for loop of _search_file pulling from the parser's generator, from
\* record i on: results so far, the error caught, the records read
RECURSIVE PullResults(_, _, _, _, _, _)
PullResults(e, parser, query, cfg, i, results) ==
    IF e.failAt = i
    THEN [results |-> results, error |-> RaisedBy(e.failKind), read |-> i - 1]
    ELSE IF i > Len(e.recs)
    THEN [results |-> results, error |-> "none", read |-> i - 1]
    ELSE IF RecordMatches(parser, e.recs[i], query, cfg.case_sensitive)
    THEN LET grown == Append(results, MakeResult(parser, e.name, i, e.recs[i])) IN
         IF Len(grown) >= cfg.max_results
         THEN [results |-> grown, error |-> "none", read |-> i]
         ELSE PullResults(e, parser, query, cfg, i + 1, grown)
    ELSE PullResults(e, parser, query, cfg, i + 1, results)

\* SearchEngine._search_file on directory image d: never raises; `results`
\* is what it returns, `error` the exception it caught and logged
SearchFile(d, info, query, cfg) ==
    LET parser == GetParserForFile(info.name)
        found  == {e \in Lookup(d, info.name) : e.isFile}
    IN  IF parser = "ConfigurationError"
        THEN [results |-> <<>>, error |-> "ConfigurationError", read |-> 0]
        ELSE IF found = {}
        THEN [results |-> <<>>, error |-> "FileAccessError", read |-> 0]
        ELSE PullResults(CHOOSE e \in found : TRUE, parser, query, cfg, 1, <<>>)

\* Severity under which every caught exception is logged as a warning
SeverityAlwaysWarning(error) == "warning"

\* the except clauses of _search_file: a DBSearcherError is logged with
\* _logger.warning, any other exception with _logger.error
Severity(error) ==
    IF error \in {"FileAccessError", "ParsingError", "ConfigurationError",
                  "SearchError"}
    THEN "warning" ELSE "error"

\* the notices _search_file logs for one file: one naming the file when it
\* caught an exception, none otherwise
FileLog(d, info, query, cfg) ==
    LET error == SearchFile(d, info, query, cfg).error IN
    IF error = "none" THEN EmptyBag
    ELSE SetToBag({[file |-> info.name, level |-> Severity(error)]})

\* the notices logged by the _search_file calls of search, which are the
\* calls for the files in `parsed`, from file i on
RECURSIVE LogOfFiles(_, _, _, _, _, _)
LogOfFiles(d, files, query, cfg, parsed, i) ==
    IF i > Len(files) THEN EmptyBag
    ELSE (IF files[i].name \in parsed
          THEN FileLog(d, files[i], query, cfg) ELSE EmptyBag)
         (+) LogOfFiles(d, files, query, cfg, parsed, i + 1)

----------------------------------------------------------------------------
(* BaseParser: the two read strategies of read_lines *)

CR == "\r"
LF == "\n"

\* the characters file contents are made of
Bytes == {"a", "A", CR, LF}

\* line.rstrip("\r\n")
RECURSIVE RStripNewlines(_)
RStripNewlines(s) ==
    IF s # <<>> /\ s[Len(s)] \in {CR, LF}
    THEN RStripNewlines(SubSeq(s, 1, Len(s) - 1))
    ELSE s

\* the index of the first LF of s, 0 when there is none
FirstLF(s) ==
    IF \E i \in 1..Len(s) : s[i] = LF
    THEN CHOOSE i \in 1..Len(s) : s[i] = LF /\ \A j \in 1..(i - 1) : s[j] # LF
    ELSE 0

\* iter(mm.readline, b""): the content cut after each LF, the rest (when not
\* empty) as the last line
RECURSIVE ReadlineAll(_)
ReadlineAll(s) ==
    IF s = <<>> THEN <<>>
    ELSE IF FirstLF(s) = 0 THEN <<s>>
    ELSE <<SubSeq(s, 1, FirstLF(s))>> \o ReadlineAll(SubSeq(s, FirstLF(s) + 1, Len(s)))

\* text mode with newline=None: CR LF and a lone CR are both read as LF
RECURSIVE UniversalNewlines(_)
UniversalNewlines(s) ==
    IF s = <<>> THEN <<>>
    ELSE IF Head(s) = CR /\ Len(s) >= 2 /\ s[2] = LF
    THEN <<LF>> \o UniversalNewlines(SubSeq(s, 3, Len(s)))
    ELSE IF Head(s) = CR THEN <<LF>> \o UniversalNewlines(Tail(s))
    ELSE <<Head(s)>> \o UniversalNewlines(Tail(s))

\* the (line_num, line) pairs a reader yields for the raw lines it iterates
Numbered(raw) ==
    [n \in 1..Len(raw) |-> [line_num |-> n, line |-> RStripNewlines(raw[n])]]

\* BaseParser._read_file_mmap on a file of these bytes
ReadFileMmap(content) == Numbered(ReadlineAll(content))

\* BaseParser._read_file_standard on a file of these bytes
ReadFileStandard(content) == Numbered(ReadlineAll(UniversalNewlines(content)))

\* BaseParser._should_use_mmap
ShouldUseMmap(size, use_mmap_threshold) == size > use_mmap_threshold

\* BaseParser.read_lines on a file of these bytes
ReadLines(content, use_mmap_threshold) ==
    IF ShouldUseMmap(Len(content), use_mmap_threshold)
    THEN ReadFileMmap(content)
    ELSE ReadFileStandard(content)

\* TextParser.parse / SQLParser.parse over the (line_num, line) pairs that
\* read_lines yields, from pair i on
RECURSIVE ParseLines(_, _, _, _, _, _)
ParseLines(parser, name, lines, query, case_sensitive, i) ==
    IF i > Len(lines) THEN <<>>
    ELSE (IF RecordMatches(parser, lines[i].line, query, case_sensitive)
          THEN <<MakeResult(parser, name, lines[i].line_num, lines[i].line)>>
          ELSE <<>>)
         \o ParseLines(parser, name, lines, query, case_sensitive, i + 1)

\* the characters csv files are made of
CsvBytes == {"a", ",", "\"", LF}

\* the parser state of a new csv.reader record (parse_reset)
CsvReset == [state |-> "START_RECORD", field |-> <<>>, fields |-> <<>>,
             error |-> FALSE]

\* parse_save_field
CsvSaveField(st, next) ==
    [st EXCEPT !.fields = Append(st.fields, st.field), !.field = <<>>,
               !.state = next]

\* parse_add_char
CsvAddChar(st, c, next) ==
    [st EXCEPT !.field = Append(st.field, c), !.state = next]

\* the state after a line end seen outside quotes
CsvAfterEnd(c) == IF c = "EOL" THEN "START_RECORD" ELSE "EAT_CRNL"

\* parse_process_char of the csv module under the default dialect (comma,
\* double quote, doublequote on, not strict); "EOL" is the end-of-line mark
\* the reader feeds after the characters of each line
CsvChar(st, c) ==
    LET s0 == IF st.state = "START_RECORD" /\ c \notin {"EOL", LF, CR}
              THEN [st EXCEPT !.state = "START_FIELD"] ELSE st
    IN
    IF s0.state = "START_RECORD"
    THEN IF c = "EOL" THEN s0 ELSE [s0 EXCEPT !.state = "EAT_CRNL"]
    ELSE IF s0.state = "START_FIELD"
    THEN IF c \in {LF, CR, "EOL"} THEN CsvSaveField(s0, CsvAfterEnd(c))
         ELSE IF c = "\"" THEN [s0 EXCEPT !.state = "IN_QUOTED_FIELD"]
         ELSE IF c = "," THEN CsvSaveField(s0, "START_FIELD")
         ELSE CsvAddChar(s0, c, "IN_FIELD")
    ELSE IF s0.state = "IN_FIELD"
    THEN IF c \in {LF, CR, "EOL"} THEN CsvSaveField(s0, CsvAfterEnd(c))
         ELSE IF c = "," THEN CsvSaveField(s0, "START_FIELD")
         ELSE CsvAddChar(s0, c, "IN_FIELD")
    ELSE IF s0.state = "IN_QUOTED_FIELD"
    THEN IF c = "EOL" THEN s0
         ELSE IF c = "\"" THEN [s0 EXCEPT !.state = "QUOTE_IN_QUOTED_FIELD"]
         ELSE CsvAddChar(s0, c, "IN_QUOTED_FIELD")
    ELSE IF s0.state = "QUOTE_IN_QUOTED_FIELD"
    THEN IF c = "\"" THEN CsvAddChar(s0, c, "IN_QUOTED_FIELD")
         ELSE IF c = "," THEN CsvSaveField(s0, "START_FIELD")
         ELSE IF c \in {LF, CR, "EOL"} THEN CsvSaveField(s0, CsvAfterEnd(c))
         ELSE CsvAddChar(s0, c, "IN_FIELD")
    ELSE \* EAT_CRNL
         IF c \in {LF, CR} THEN s0
         ELSE IF c = "EOL" THEN [s0 EXCEPT !.state = "START_RECORD"]
         ELSE [s0 EXCEPT !.error = TRUE]

\* the characters of one line, then the end-of-line mark
RECURSIVE CsvLine(_, _)
CsvLine(st, line) ==
    IF line = <<>> THEN CsvChar(st, "EOL")
    ELSE CsvLine(CsvChar(st, Head(line)), Tail(line))

\* Reader.__next__ repeated to the end of the input: the rows csv.reader
\* yields for the lines of a file opened with newline=""
RECURSIVE CsvRows(_, _, _, _)
CsvRows(lines, i, st, rows) ==
    IF i > Len(lines)
    THEN IF st.field # <<>> \/ st.state = "IN_QUOTED_FIELD"
         THEN Append(rows, CsvSaveField(st, st.state).fields)
         ELSE rows
    ELSE LET t == CsvLine(st, lines[i]) IN
         IF t.state = "START_RECORD"
         THEN CsvRows(lines, i + 1, CsvReset, Append(rows, t.fields))
         ELSE CsvRows(lines, i + 1, t, rows)

\* enumerate(csv.reader(f), start=1) on a file of these bytes
CsvReader(content) ==
    LET rows == CsvRows(ReadlineAll(content), 1, CsvReset, <<>>) IN
    [n \in 1..Len(rows) |-> [line_num |-> n, line |-> rows[n]]]

\* no parser run yet
NoParse ==
    [parser |-> "none", query |-> <<>>, case_sensitive |-> FALSE,
     records |-> <<>>, results |-> <<>>]

\* the coordinator has not searched the file
NoSearch ==
    [parser |-> "none", strategy |-> "none", query |-> <<>>,
     results |-> <<>>, read |-> 0]

\* no file read yet by either strategy, none parsed, none searched
NoRead ==
    [kind |-> "text", content |-> <<>>, mmap |-> <<>>, standard |-> <<>>,
     done |-> {}, parse |-> NoParse, search |-> NoSearch]

----------------------------------------------------------------------------
(* SearchEngine *)

\* the query arguments callers pass
RawQueries == {<<>>, <<" ">>, <<"a">>, <<" ", "a", " ">>, <<"b">>}

\* QueryIsEmpty without the strip: only the empty string is rejected
QueryIsEmptyNoStrip(query) == Len(query) = 0

\* not query or not query.strip()
QueryIsEmpty(query) == Len(query) = 0 \/ Len(Strip(query)) = 0

EmptyCache == [k \in {} |-> <<>>]

\* no entry of the cache has a creating run
NoneCreated == [k \in {} |-> 0]

\* the run `op` stored the entry under `key`, returned `results` and reported
\* files_searched
Created(cr, key, op, results, files_searched) ==
    [k \in DOMAIN cr \cup {key} |->
        IF k = key
        THEN [op |-> op, results |-> results, files_searched |-> files_searched]
        ELSE cr[k]]

\* CachePut that starts a new cache holding the one entry
CachePutAlone(ch, key, results) == [k \in {key} |-> results]

\* self._result_cache[query_normalized] = all_results
CachePut(ch, key, results) ==
    [k \in DOMAIN ch \cup {key} |-> IF k = key THEN results ELSE ch[k]]

NoRet ==
    [op |-> "none", raw |-> <<>>, query |-> <<>>, kind |-> "none",
     results |-> <<>>, files_searched |-> 0, total_matches |-> 0,
     hit |-> FALSE, scans |-> 0, parsed |-> {}, log |-> EmptyBag]

\* a call that raised `error`; raw is the query argument, query the
\* normalized query
Raised(op, query, error, scans) ==
    [NoRet EXCEPT !.op = op, !.raw = query, !.query = Strip(query),
                  !.kind = error, !.scans = scans]

\* Returned that reports the files processed instead of the files indexed
ReturnedCountsParsed(op, query, results, files_searched, hit, scans, parsed) ==
    [op |-> op, raw |-> query, query |-> Strip(query), kind |-> "ok",
     results |-> results, files_searched |-> Cardinality(parsed),
     total_matches |-> Len(results), hit |-> hit, scans |-> scans,
     parsed |-> parsed, log |-> EmptyBag]

\* a call that returned (results, SearchStats)
Returned(op, query, results, files_searched, hit, scans, parsed) ==
    [op |-> op, raw |-> query, query |-> Strip(query), kind |-> "ok",
     results |-> results, files_searched |-> files_searched,
     total_matches |-> Len(results), hit |-> hit, scans |-> scans,
     parsed |-> parsed, log |-> EmptyBag]

\* SearchLoop that lets a failing file end the scan
RECURSIVE SearchLoopAborts(_, _, _, _, _, _, _)
SearchLoopAborts(d, files, query, cfg, i, all_results, parsed) ==
    IF i > Len(files)
    THEN [results |-> all_results, parsed |-> parsed]
    ELSE LET r == SearchFile(d, files[i], query, cfg)
             extended == all_results \o r.results
             seen == parsed \cup {files[i].name}
         IN  IF Len(extended) >= cfg.max_results
             THEN [results |-> Truncate(extended, cfg.max_results),
                   parsed |-> seen]
             ELSE IF r.error # "none"
             THEN [results |-> extended, parsed |-> seen]
             ELSE SearchLoopAborts(d, files, query, cfg, i + 1, extended, seen)

\* SearchLoop that puts each file's matches in front of the accumulator
RECURSIVE SearchLoopPrepends(_, _, _, _, _, _, _)
SearchLoopPrepends(d, files, query, cfg, i, all_results, parsed) ==
    IF i > Len(files)
    THEN [results |-> all_results, parsed |-> parsed]
    ELSE LET file_results == SearchFile(d, files[i], query, cfg).results
             extended == file_results \o all_results
             seen == parsed \cup {files[i].name}
         IN  IF Len(extended) >= cfg.max_results
             THEN [results |-> Truncate(extended, cfg.max_results),
                   parsed |-> seen]
             ELSE SearchLoopPrepends(d, files, query, cfg, i + 1, extended, seen)

\* SearchLoop without the break: every file is searched, then the list is cut
RECURSIVE SearchLoopScansAll(_, _, _, _, _, _, _)
SearchLoopScansAll(d, files, query, cfg, i, all_results, parsed) ==
    IF i > Len(files)
    THEN [results |-> Truncate(all_results, cfg.max_results),
          parsed |-> parsed]
    ELSE SearchLoopScansAll(d, files, query, cfg, i + 1,
            all_results \o SearchFile(d, files[i], query, cfg).results,
            parsed \cup {files[i].name})

\* the for loop of search over files, from file i on
RECURSIVE SearchLoop(_, _, _, _, _, _, _)
SearchLoop(d, files, query, cfg, i, all_results, parsed) ==
    IF i > Len(files)
    THEN [results |-> all_results, parsed |-> parsed]
    ELSE LET file_results == SearchFile(d, files[i], query, cfg).results
             extended == all_results \o file_results
             seen == parsed \cup {files[i].name}
         IN  IF Len(extended) >= cfg.max_results
             THEN [results |-> Truncate(extended, cfg.max_results),
                   parsed |-> seen]
             ELSE SearchLoop(d, files, query, cfg, i + 1, extended, seen)

\* CacheHit that ignores the stored list and searches the files again
CacheHitRescans(op, query, ix, ch, d, cfg) ==
    LET g == Refresh(ix, d, cfg.supported_extensions) IN
    [indexer |-> g.indexer,
     ret |-> IF g.error # "none"
             THEN Raised(op, query, g.error, 1)
             ELSE Returned(op, query,
                           SearchLoop(d, g.indexer.index, Strip(query), cfg, 1,
                                      <<>>, {}).results,
                           Len(g.indexer.index), TRUE, 0, {})]

\* CacheHit that reports no file as searched
CacheHitSearchedNone(op, query, ix, ch, d, cfg) ==
    LET g == Fresh(ix, d, cfg.supported_extensions) IN
    [indexer |-> g.indexer,
     ret |-> IF g.error # "none"
             THEN Raised(op, query, g.error, g.scans)
             ELSE Returned(op, query, ch[Strip(query)], 0, TRUE, g.scans, {})]

\* the cache-hit branch of search and search_parallel: the indexer it leaves
\* and the outcome of the call
CacheHit(op, query, ix, ch, d, cfg) ==
    LET g == Fresh(ix, d, cfg.supported_extensions) IN
    [indexer |-> g.indexer,
     ret |-> IF g.error # "none"
             THEN Raised(op, query, g.error, g.scans)
             ELSE Returned(op, query, ch[Strip(query)], Len(g.indexer.index),
                           TRUE, g.scans, {})]

\* SearchEngine.search as a whole: the indexer and cache it leaves, and the
\* outcome of the call
SearchOutcome(query, ix, ch, d, cfg) ==
    IF QueryIsEmpty(query)
    THEN [indexer |-> ix, cache |-> ch,
          ret |-> Raised("search", query, "SearchError", 0)]
    ELSE IF Strip(query) \in DOMAIN ch
    THEN CacheHit("search", query, ix, ch, d, cfg) @@ [cache |-> ch]
    ELSE LET g == Fresh(ix, d, cfg.supported_extensions) IN
         IF g.error # "none"
         THEN [indexer |-> g.indexer, cache |-> ch,
               ret |-> Raised("search", query, g.error, g.scans)]
         ELSE LET files == g.indexer.index
                  r == SearchLoop(d, files, Strip(query), cfg, 1, <<>>, {})
              IN  [indexer |-> g.indexer,
                   cache |-> CachePut(ch, Strip(query), r.results),
                   ret |-> [Returned("search", query, r.results, Len(files),
                                     FALSE, g.scans, r.parsed)
                            EXCEPT !.log = LogOfFiles(d, files, Strip(query),
                                                      cfg, r.parsed, 1)]]

\* no search_parallel call in progress
NoPar ==
    [query |-> <<>>, workers |-> 0, num_workers |-> 0, files |-> <<>>,
     fut |-> <<>>, worker |-> <<>>, res |-> <<>>, done |-> {},
     all_results |-> <<>>, ci |-> 0, scans |-> 0, log |-> EmptyBag]

\* num_workers = workers or self._config.parallel_workers (0 stands for None)
NumWorkers(workers, cfg) == IF workers # 0 THEN workers ELSE cfg.parallel_workers

\* the locals of search_parallel once one unit per file is submitted;
\* worker[u] is the pool thread running unit u, 0 when none is
Submitted(query, workers, files, scans, cfg) ==
    [query |-> Strip(query),
     workers |-> workers,
     num_workers |-> NumWorkers(workers, cfg),
     files |-> files,
     fut |-> [u \in 1..Len(files) |-> "pending"],
     worker |-> [u \in 1..Len(files) |-> 0],
     res |-> [u \in 1..Len(files) |-> <<>>],
     done |-> {},
     all_results |-> <<>>,
     ci |-> 0,
     scans |-> scans,
     log |-> EmptyBag]

Units == 1..Len(par.files)

Running == {u \in Units : par.fut[u] = "running"}

\* the pool threads that run no unit; threads are interchangeable, the
\* lowest-numbered one takes the next unit
IdleWorkers == (1..par.num_workers) \ {par.worker[u] : u \in Running}

\* the previous call: `set` when it was a search that returned, `cleared`
\* when it was clear_cache
NoPrev == [query |-> <<>>, results |-> <<>>, set |-> FALSE, cleared |-> FALSE]

----------------------------------------------------------------------------
(* Actions *)

\* the configurations a coordinator is built with: the defaults under every
\* cap, and a case-sensitive one that also recognizes .log files
Configs ==
    [max_results : 1..MaxResults,
     case_sensitive : {FALSE},
     parallel_workers : {DEFAULT_PARALLEL_WORKERS},
     use_mmap_threshold : {MMAP_THRESHOLD_BYTES},
     supported_extensions : {DefaultExtensions}]
    \cup
    [max_results : {MaxResults},
     case_sensitive : {TRUE},
     parallel_workers : {DEFAULT_PARALLEL_WORKERS},
     use_mmap_threshold : {MMAP_THRESHOLD_BYTES},
     supported_extensions : {DefaultExtensions \cup {".log"}}]

Init ==
    /\ config \in Configs
    /\ disk \in DiskIds
    /\ indexer = [index |-> <<>>, is_stale |-> TRUE]
    /\ cache = EmptyCache
    /\ pc = "idle"
    /\ par = NoPar
    /\ ret = NoRet
    /\ prev = NoPrev
    /\ rd = NoRead
    /\ created = NoneCreated

\* the files under the root directory change between two calls
FsChange(d) ==
    /\ pc = "idle"
    /\ d # disk
    /\ disk' = d
    /\ UNCHANGED <<created, rd, config, indexer, cache, pc, par, ret, prev>>

\* SearchEngine.search(query)
Search(query) ==
    /\ pc = "idle"
    /\ LET o == SearchOutcome(query, indexer, cache, disk, config) IN
         /\ indexer' = o.indexer
         /\ cache' = o.cache
         /\ ret' = o.ret
         /\ created' = IF o.ret.kind = "ok" /\ ~o.ret.hit
                       THEN Created(created, o.ret.query, "search",
                                    o.ret.results, o.ret.files_searched)
                       ELSE created
    /\ pc' = "returned"
    /\ UNCHANGED <<rd, config, disk, par, prev>>

\* SearchEngine.search_parallel(query, workers=workers) up to the submission
\* of one unit per file
SearchParallel(query, workers) ==
    /\ pc = "idle"
    /\ IF QueryIsEmpty(query)
       THEN /\ ret' = Raised("search_parallel", query, "SearchError", 0)
            /\ pc' = "returned"
            /\ UNCHANGED <<indexer, cache, par, prev>>
       ELSE IF Strip(query) \in DOMAIN cache
       THEN LET o == CacheHit("search_parallel", query, indexer, cache, disk,
                              config)
            IN  /\ indexer' = o.indexer
                /\ ret' = o.ret
                /\ pc' = "returned"
                /\ UNCHANGED <<cache, par, prev>>
       ELSE LET g == Fresh(indexer, disk, config.supported_extensions) IN
            /\ indexer' = g.indexer
            /\ IF g.error # "none"
               THEN /\ ret' = Raised("search_parallel", query, g.error, g.scans)
                    /\ pc' = "returned"
                    /\ UNCHANGED <<cache, par, prev>>
               ELSE /\ par' = Submitted(query, workers, g.indexer.index,
                                        g.scans, config)
                    /\ pc' = "collect"
                    /\ prev' = NoPrev
                    /\ UNCHANGED <<cache, ret>>
    /\ UNCHANGED <<created, rd, config, disk>>

\* WorkerStart with no limit on the threads: a unit starts whenever it is
\* pending
WorkerStartAnyTime(u) ==
    /\ pc \in {"collect", "cancel", "shutdown"}
    /\ par.fut[u] = "pending"
    /\ par' = [par EXCEPT !.fut[u] = "running", !.worker[u] = 1]
    /\ UNCHANGED <<created, rd, config, disk, indexer, cache, pc, ret, prev>>

\* a free pool thread takes a pending unit (set_running_or_notify_cancel)
WorkerStart(u) ==
    /\ pc \in {"collect", "cancel", "shutdown"}
    /\ par.fut[u] = "pending"
    /\ IdleWorkers # {}
    /\ par' = [par EXCEPT !.fut[u] = "running",
                          !.worker[u] = CHOOSE w \in IdleWorkers :
                                           \A v \in IdleWorkers : w <= v]
    /\ UNCHANGED <<created, rd, config, disk, indexer, cache, pc, ret, prev>>

\* WorkerFinish in which the unit itself extends the accumulator
WorkerFinishAppends(u) ==
    /\ pc \in {"collect", "cancel", "shutdown"}
    /\ par.fut[u] = "running"
    /\ LET found == SearchFile(disk, par.files[u], par.query, config).results
       IN  par' = [par EXCEPT !.fut[u] = "finished", !.worker[u] = 0,
                             !.res[u] = found,
                             !.all_results = par.all_results \o found]
    /\ UNCHANGED <<created, rd, config, disk, indexer, cache, pc, ret, prev>>

\* the unit's _search_file returns and its future gets the result
WorkerFinish(u) ==
    /\ pc \in {"collect", "cancel", "shutdown"}
    /\ par.fut[u] = "running"
    /\ par' = [par EXCEPT
                 !.fut[u] = "finished",
                 !.worker[u] = 0,
                 !.res[u] = SearchFile(disk, par.files[u], par.query,
                                       config).results,
                 !.log = par.log (+) FileLog(disk, par.files[u], par.query,
                                             config)]
    /\ UNCHANGED <<created, rd, config, disk, indexer, cache, pc, ret, prev>>

\* Accumulate that assigns instead of extending
AccumulateLast(all_results, file_results) == file_results

\* all_results.extend(file_results) in the as_completed loop
Accumulate(all_results, file_results) == all_results \o file_results

\* one round of the as_completed loop: extend, then the early-termination test
Collect(u) ==
    /\ pc = "collect"
    /\ par.fut[u] = "finished"
    /\ u \notin par.done
    /\ LET extended == Accumulate(par.all_results, par.res[u]) IN
         /\ par' = [par EXCEPT !.all_results = extended,
                               !.done = par.done \cup {u},
                               !.ci = IF Len(extended) >= config.max_results
                                      THEN 1 ELSE 0]
         /\ pc' = IF Len(extended) >= config.max_results
                  THEN "cancel" ELSE "collect"
    /\ UNCHANGED <<created, rd, config, disk, indexer, cache, ret, prev>>

\* f.cancel() on a future: only a pending future is cancelled
CancelFuture(state) == IF state = "pending" THEN "cancelled" ELSE state

\* one round of `for f in future_to_file: f.cancel()`; after the last one the
\* accumulator is truncated and the loop is left
CancelStep ==
    /\ pc = "cancel"
    /\ LET u == par.ci
           last == par.ci = Len(par.files)
       IN  /\ par' = [par EXCEPT
                        !.fut[u] = CancelFuture(par.fut[u]),
                        !.ci = IF last THEN 0 ELSE par.ci + 1,
                        !.all_results =
                            IF last
                            THEN Truncate(par.all_results, config.max_results)
                            ELSE par.all_results]
           /\ pc' = IF last THEN "shutdown" ELSE "cancel"
    /\ UNCHANGED <<created, rd, config, disk, indexer, cache, ret, prev>>

\* PoolDrained of a pool shut down without waiting (shutdown(wait=False))
PoolDrainedNoWait ==
    IF pc = "collect" THEN par.done = Units ELSE pc = "shutdown"

\* PoolDrained that waits until every unit has run, the cancelled included
PoolDrainedWaitsForAll ==
    /\ pc \in {"collect", "shutdown"}
    /\ \A u \in Units : par.fut[u] = "finished"
    /\ pc = "collect" => par.done = Units

\* the as_completed loop ran out of futures, or was left by break: the with
\* block waits for the pool (executor.shutdown(wait=True))
PoolDrained ==
    IF pc = "collect" THEN par.done = Units
    ELSE pc = "shutdown"
         /\ \A u \in Units : par.fut[u] \in {"finished", "cancelled"}

\* ParallelReturn that keeps the result of the parallel run out of the cache
ParallelReturnStoresNothing ==
    /\ PoolDrained
    /\ ret' = [Returned("search_parallel", par.query, par.all_results,
                        Len(par.files), FALSE, par.scans,
                        {par.files[u].name : u \in
                             {v \in Units : par.fut[v] = "finished"}})
               EXCEPT !.log = par.log]
    /\ created' = Created(created, par.query, "search_parallel",
                           par.all_results, Len(par.files))
    /\ pc' = "returned"
    /\ par' = NoPar
    /\ UNCHANGED <<rd, config, disk, indexer, cache, prev>>

\* search_parallel stores the result in the cache and returns
ParallelReturn ==
    /\ PoolDrained
    /\ cache' = CachePut(cache, par.query, par.all_results)
    /\ ret' = [Returned("search_parallel", par.query, par.all_results,
                        Len(par.files), FALSE, par.scans,
                        {par.files[u].name : u \in
                             {v \in Units : par.fut[v] = "finished"}})
               EXCEPT !.log = par.log]
    /\ created' = Created(created, par.query, "search_parallel",
                           par.all_results, Len(par.files))
    /\ pc' = "returned"
    /\ par' = NoPar
    /\ UNCHANGED <<rd, config, disk, indexer, prev>>

\* ClearCache that invalidates the File Index and keeps the cached results
ClearCacheKeepsCache ==
    /\ pc = "idle"
    /\ indexer' = [indexer EXCEPT !.is_stale = TRUE]
    /\ ret' = [NoRet EXCEPT !.op = "clear_cache", !.kind = "ok"]
    /\ pc' = "returned"
    /\ UNCHANGED <<created, rd, config, disk, cache, par, prev>>

\* ClearCache that leaves the File Index as it is
ClearCacheKeepsIndex ==
    /\ pc = "idle"
    /\ cache' = EmptyCache
    /\ created' = NoneCreated
    /\ ret' = [NoRet EXCEPT !.op = "clear_cache", !.kind = "ok"]
    /\ pc' = "returned"
    /\ UNCHANGED <<rd, config, disk, indexer, par, prev>>

\* SearchEngine.clear_cache()
ClearCache ==
    /\ pc = "idle"
    /\ cache' = EmptyCache
    /\ created' = NoneCreated
    /\ indexer' = [indexer EXCEPT !.is_stale = TRUE]
    /\ ret' = [NoRet EXCEPT !.op = "clear_cache", !.kind = "ok"]
    /\ pc' = "returned"
    /\ UNCHANGED <<rd, config, disk, par, prev>>

\* SearchEngine.get_file_stats(): get_file_count(), then get_total_size()
GetFileStats ==
    /\ pc = "idle"
    /\ LET g == Fresh(indexer, disk, config.supported_extensions) IN
         /\ indexer' = g.indexer
         /\ ret' = IF g.error # "none"
                   THEN Raised("get_file_stats", <<>>, g.error, g.scans)
                   ELSE [NoRet EXCEPT !.op = "get_file_stats", !.kind = "ok",
                                      !.files_searched = Len(g.indexer.index),
                                      !.scans = g.scans]
    /\ pc' = "returned"
    /\ UNCHANGED <<created, rd, config, disk, cache, par, prev>>

\* the caller takes the outcome of the call and goes on
Resume ==
    /\ pc = "returned"
    /\ pc' = "idle"
    /\ ret' = NoRet
    /\ prev' = IF ret.op = "search" /\ ret.kind = "ok"
               THEN [query |-> ret.query, results |-> ret.results, set |-> TRUE,
                     cleared |-> FALSE]
               ELSE IF ret.op = "clear_cache"
               THEN [NoPrev EXCEPT !.cleared = TRUE]
               ELSE NoPrev
    /\ UNCHANGED <<created, rd, config, disk, indexer, cache, par>>

Next ==
    \/ \E d \in DiskIds : FsChange(d)
    \/ \E query \in RawQueries : Search(query)
    \/ \E query \in RawQueries, workers \in 0..MaxWorkers :
          SearchParallel(query, workers)
    \/ \E u \in Units : WorkerStart(u)
    \/ \E u \in Units : WorkerFinish(u)
    \/ \E u \in Units : Collect(u)
    \/ CancelStep
    \/ ParallelReturn
    \/ ClearCache
    \/ GetFileStats
    \/ Resume

Spec == Init /\ [][Next]_vars

----------------------------------------------------------------------------
(* search_parallel under the scheduling of the pool *)

\* the steps of search_parallel calls and of their callers
ParallelNext ==
    \/ \E query \in RawQueries, workers \in 0..MaxWorkers :
          SearchParallel(query, workers)
    \/ \E u \in Units : WorkerStart(u)
    \/ \E u \in Units : WorkerFinish(u)
    \/ \E u \in Units : Collect(u)
    \/ CancelStep
    \/ ParallelReturn
    \/ Resume

\* every unit number a call can submit: a directory gives at most one unit
\* per entry
AnyUnits == UNION {1..Len(Dir(d).entries) : d \in DiskIds}

\* unit u of the call in progress is running on a pool thread
IsRunning(u) == u \in Units /\ par.fut[u] = "running"

\* a step of the thread that called search_parallel
CallerStep == (\E u \in Units : Collect(u)) \/ CancelStep \/ ParallelReturn

\* The pool hands a pending unit to an idle thread; every started unit
\* finishes its file, so no unit stays running for ever; the calling thread
\* goes on with its loop, its cancels and its return whenever it can.
ParallelFairness ==
    /\ WF_vars(\E u \in Units : WorkerStart(u))
    /\ \A u \in AnyUnits : []<>(~IsRunning(u))
    /\ WF_vars(CallerStep)

ParallelSpec == Init /\ [][ParallelNext]_vars /\ ParallelFairness

----------------------------------------------------------------------------
(* A FileIndexer used on its own: refresh, invalidate and the four reads *)

\* sum(f.size_bytes for f in self._index.values())
RECURSIVE SumSizes(_)
SumSizes(index) ==
    IF index = <<>> THEN 0 ELSE Head(index).size_bytes + SumSizes(Tail(index))

\* self._index.get(name)
DictGet(index, name) ==
    IF \E i \in 1..Len(index) : index[i].name = name
    THEN index[CHOOSE i \in 1..Len(index) : index[i].name = name]
    ELSE "None"

ReadOps == {"get_files", "get_file", "get_total_size", "get_file_count"}

\* the names get_file is asked for
LookupNames == {<<"a", ".txt">>, <<"z", ".txt">>}

\* what a read returns from the stored entries
ReadValue(op, name, index) ==
    IF op = "get_files" THEN index
    ELSE IF op = "get_file" THEN DictGet(index, name)
    ELSE IF op = "get_total_size" THEN SumSizes(index)
    ELSE Len(index)

\* the outcome of a FileIndexer call
IxRet(op, name, kind, value, scans) ==
    [op |-> op, name |-> name, kind |-> kind, value |-> value, scans |-> scans]

\* no scan has run to completion yet
NoScan == [scan |-> <<>>, complete |-> FALSE]

\* the last scan that ran to completion, after a call that scanned or not
LastScan(scanned, error, index) ==
    IF scanned /\ error = "none" THEN [scan |-> index, complete |-> TRUE]
    ELSE prev

IndexerInit ==
    /\ config \in {c \in Configs : c.max_results = MaxResults}
    /\ disk \in DiskIds
    /\ indexer = [index |-> <<>>, is_stale |-> TRUE]
    /\ cache = EmptyCache
    /\ pc = "idle"
    /\ par = NoPar
    /\ ret = NoRet
    /\ prev = NoScan
    /\ rd = NoRead
    /\ created = NoneCreated

\* FileIndexer.refresh()
IxRefresh ==
    /\ pc = "idle"
    /\ LET r == Refresh(indexer, disk, config.supported_extensions) IN
         /\ indexer' = r.indexer
         /\ ret' = IF r.error # "none"
                   THEN IxRet("refresh", <<>>, r.error, "none", 1)
                   ELSE IxRet("refresh", <<>>, "ok", Len(r.indexer.index), 1)
         /\ prev' = LastScan(TRUE, r.error, r.indexer.index)
    /\ pc' = "returned"
    /\ UNCHANGED <<created, rd, config, disk, cache, par>>

\* FileIndexer.get_files(), get_file(name), get_total_size(), get_file_count()
IxRead(op, name) ==
    /\ pc = "idle"
    /\ LET g == Fresh(indexer, disk, config.supported_extensions) IN
         /\ indexer' = g.indexer
         /\ ret' = IF g.error # "none"
                   THEN IxRet(op, name, g.error, "none", g.scans)
                   ELSE IxRet(op, name, "ok",
                              ReadValue(op, name, g.indexer.index), g.scans)
         /\ prev' = LastScan(g.scans = 1, g.error, g.indexer.index)
    /\ pc' = "returned"
    /\ UNCHANGED <<created, rd, config, disk, cache, par>>

\* FileIndexer.invalidate()
IxInvalidate ==
    /\ pc = "idle"
    /\ indexer' = [indexer EXCEPT !.is_stale = TRUE]
    /\ ret' = IxRet("invalidate", <<>>, "ok", "none", 0)
    /\ pc' = "returned"
    /\ UNCHANGED <<created, rd, config, disk, cache, par, prev>>

\* the caller takes the outcome of the call and goes on
IxResume ==
    /\ pc = "returned"
    /\ pc' = "idle"
    /\ ret' = NoRet
    /\ UNCHANGED <<created, rd, config, disk, indexer, cache, par, prev>>

IndexerNext ==
    \/ \E d \in DiskIds : FsChange(d)
    \/ IxRefresh
    \/ \E name \in LookupNames : IxRead("get_file", name)
    \/ \E op \in ReadOps \ {"get_file"} : IxRead(op, <<>>)
    \/ IxInvalidate
    \/ IxResume

IndexerSpec == IndexerInit /\ [][IndexerNext]_vars

----------------------------------------------------------------------------
(* A parser reading one file with either strategy *)

\* every file content of at most MaxBytes characters
Contents == UNION {[1..n -> Bytes] : n \in 0..MaxBytes}

\* every csv file content of at most MaxBytes characters
CsvContents == UNION {[1..n -> CsvBytes] : n \in 0..MaxBytes}

ReaderInit ==
    /\ rd \in {[NoRead EXCEPT !.content = c] : c \in Contents}
             \cup {[NoRead EXCEPT !.content = c, !.kind = "csv"] :
                      c \in CsvContents}
    /\ config \in {c \in Configs : c.max_results = MaxResults /\ ~c.case_sensitive}
    /\ disk = "D5"
    /\ indexer = [index |-> <<>>, is_stale |-> TRUE]
    /\ cache = EmptyCache
    /\ pc = "reader"
    /\ par = NoPar
    /\ ret = NoRet
    /\ prev = NoPrev
    /\ created = NoneCreated

\* the file is read through the memory map
ReadMmap ==
    /\ pc = "reader"
    /\ "mmap" \notin rd.done
    /\ rd.kind = "text"
    /\ rd' = [rd EXCEPT !.mmap = ReadFileMmap(rd.content),
                        !.done = rd.done \cup {"mmap"}]
    /\ UNCHANGED <<config, disk, indexer, cache, pc, par, ret, prev, created>>

\* the file is read through the buffered text reader
ReadStandard ==
    /\ pc = "reader"
    /\ "standard" \notin rd.done
    /\ rd.kind = "text"
    /\ rd' = [rd EXCEPT !.standard = ReadFileStandard(rd.content),
                        !.done = rd.done \cup {"standard"}]
    /\ UNCHANGED <<config, disk, indexer, cache, pc, par, ret, prev, created>>

\* the queries and thresholds a parser is run with
ParserQueries == {<<"a">>, <<"A">>, <<"A", "a">>}
Thresholds == {0, MaxBytes}

\* TextParser().parse or SQLParser().parse on the file
ParseText(parser, query, case_sensitive, use_mmap_threshold) ==
    /\ pc = "reader"
    /\ rd.kind = "text"
    /\ rd.parse = NoParse
    /\ LET lines == ReadLines(rd.content, use_mmap_threshold) IN
         rd' = [rd EXCEPT !.parse =
                  [parser |-> parser, query |-> query,
                   case_sensitive |-> case_sensitive,
                   records |-> [n \in 1..Len(lines) |-> lines[n].line],
                   results |-> ParseLines(parser,
                                 <<"f", IF parser = "SQLParser" THEN ".sql"
                                        ELSE ".txt">>,
                                 lines, query, case_sensitive, 1)]]
    /\ UNCHANGED <<config, disk, indexer, cache, pc, par, ret, prev, created>>

\* the queries a CSVParser is run with
CsvQueries == {<<"a">>, <<"A">>, <<"a", ",", " ", "a">>, <<"\"">>, <<",">>}

\* CSVParser().parse on the file
ParseCsv(query, case_sensitive) ==
    /\ pc = "reader"
    /\ rd.kind = "csv"
    /\ rd.parse = NoParse
    /\ LET rows == CsvReader(rd.content) IN
         rd' = [rd EXCEPT !.parse =
                  [parser |-> "CSVParser", query |-> query,
                   case_sensitive |-> case_sensitive,
                   records |-> [n \in 1..Len(rows) |-> rows[n].line],
                   results |-> ParseLines("CSVParser", <<"f", ".csv">>, rows,
                                          query, case_sensitive, 1)]]
    /\ UNCHANGED <<config, disk, indexer, cache, pc, par, ret, prev, created>>

ReaderNext ==
    \/ \E query \in CsvQueries, case_sensitive \in BOOLEAN :
          ParseCsv(query, case_sensitive)
    \/ ReadMmap
    \/ ReadStandard
    \/ \E parser \in {"TextParser", "SQLParser"}, query \in ParserQueries,
          case_sensitive \in BOOLEAN, threshold \in Thresholds :
          ParseText(parser, query, case_sensitive, threshold)

ReaderSpec == ReaderInit /\ [][ReaderNext]_vars

----------------------------------------------------------------------------
(* A coordinator searching one file *)

\* the use_mmap_threshold values a SearchConfig is built with: every file
\* with content is larger than the first, none is larger than the default
ConfigThresholds == {0, MMAP_THRESHOLD_BYTES}

\* a coordinator under any configuration with either threshold, and a .txt
\* or .sql file of any content
FileSearchInit ==
    /\ rd \in {[NoRead EXCEPT !.content = c] : c \in Contents}
    /\ config \in {[c EXCEPT !.use_mmap_threshold = t] :
                      c \in Configs, t \in ConfigThresholds}
    /\ disk = "D5"
    /\ indexer = [index |-> <<>>, is_stale |-> TRUE]
    /\ cache = EmptyCache
    /\ pc = "file"
    /\ par = NoPar
    /\ ret = NoRet
    /\ prev = NoPrev
    /\ created = NoneCreated

\* SearchEngine._search_file on a .txt or .sql file holding the content:
\* get_parser_for_file builds the parser without arguments, so read_lines
\* compares the size with MMAP_THRESHOLD_BYTES; the loop pulls matches until
\* config.max_results
SearchFileBytes(parser, query) ==
    /\ pc = "file"
    /\ rd.kind = "text"
    /\ rd.search = NoSearch
    /\ LET name  == <<"f", IF parser = "SQLParser" THEN ".sql" ELSE ".txt">>
           lines == ReadLines(rd.content, MMAP_THRESHOLD_BYTES)
           e     == [name |-> name, failAt |-> 0, failKind |-> "none",
                     recs |-> [n \in 1..Len(lines) |-> lines[n].line]]
           out   == PullResults(e, GetParserForFile(name), query, config,
                                1, <<>>)
       IN  rd' = [rd EXCEPT !.search =
                    [parser |-> GetParserForFile(name),
                     strategy |-> IF ShouldUseMmap(Len(rd.content),
                                                   MMAP_THRESHOLD_BYTES)
                                  THEN "mmap" ELSE "standard",
                     query |-> query, results |-> out.results,
                     read |-> out.read]]
    /\ UNCHANGED <<config, disk, indexer, cache, pc, par, ret, prev, created>>

FileSearchNext ==
    \E parser \in {"TextParser", "SQLParser"}, query \in ParserQueries :
        SearchFileBytes(parser, query)

FileSearchSpec == FileSearchInit /\ [][FileSearchNext]_vars

----------------------------------------------------------------------------
(* Properties: what the statements below are written in *)

RECURSIVE SeqToBag(_)
SeqToBag(s) ==
    IF s = <<>> THEN EmptyBag ELSE SetToBag({Head(s)}) (+) SeqToBag(Tail(s))

RECURSIVE Concat(_)
Concat(ss) == IF ss = <<>> THEN <<>> ELSE Head(ss) \o Concat(Tail(ss))

\* a query that is empty or holds whitespace only
Blank(query) == \A i \in 1..Len(query) : IsSpace(query[i])

\* a search or search_parallel call has just returned a result list
SearchReturned ==
    pc = "returned" /\ ret.op \in {"search", "search_parallel"} /\ ret.kind = "ok"

\* ... and computed it from the files (no cache hit)
FreshReturned == SearchReturned /\ ~ret.hit

\* the regular file named by an index entry, as a set (empty when gone)
OnDisk(info) == {e \in Lookup(disk, info.name) : e.isFile}

\* processing the file of this index entry raises no exception at any record
Healthy(info) ==
    /\ GetParserForFile(info.name) # "ConfigurationError"
    /\ OnDisk(info) # {}
    /\ \A e \in OnDisk(info) : e.failAt = 0

\* the k-th smallest element of a set of numbers
Nth(S, k) == CHOOSE i \in S : Cardinality({j \in S : j < i}) = k - 1

\* every match of the file of an index entry, in ascending record order: the
\* records its parser yields before it fails that contain the query
MatchesOf(info, query) ==
    IF GetParserForFile(info.name) = "ConfigurationError" \/ OnDisk(info) = {}
    THEN <<>>
    ELSE LET e == CHOOSE x \in OnDisk(info) : TRUE
             parser == GetParserForFile(info.name)
             n == IF e.failAt = 0 THEN Len(e.recs) ELSE e.failAt - 1
             hits == {i \in 1..n : RecordMatches(parser, e.recs[i], query,
                                                 config.case_sensitive)}
         IN  [k \in 1..Cardinality(hits) |->
                MakeResult(parser, e.name, Nth(hits, k), e.recs[Nth(hits, k)])]

\* all matches of all indexed files, file after file in index order
AllMatches(query) ==
    Concat([i \in 1..Len(indexer.index) |-> MatchesOf(indexer.index[i], query)])

InSeq(x, s) == \E i \in 1..Len(s) : s[i] = x

IndexedNames == {indexer.index[i].name : i \in 1..Len(indexer.index)}

\* the index is what a scan of the directory as it is now gives
IndexCurrent ==
    LET r == Refresh([index |-> <<>>, is_stale |-> TRUE], disk,
                     config.supported_extensions)
    IN  r.error = "none" /\ r.indexer.index = indexer.index

----------------------------------------------------------------------------
(* C1 *)

\* C1: the list a search or search_parallel call returns, and every list the
\* result cache holds, has at most max_results elements.
C1_ResultWithinCap ==
    /\ SearchReturned => Len(ret.results) <= config.max_results
    /\ \A k \in DOMAIN cache : Len(cache[k]) <= config.max_results

\* a parallel run over files holding more matches than the cap returned
\* exactly max_results of them
C1_Witness ==
    /\ FreshReturned
    /\ ret.op = "search_parallel"
    /\ Len(AllMatches(ret.query)) > config.max_results
    /\ Len(ret.results) = config.max_results
    /\ cache[ret.query] = ret.results

----------------------------------------------------------------------------
(* C2 *)

\* C2: a search call raises only for an empty query or a failed directory
\* scan, never for a file that fails; and when the cap is not reached every
\* indexed file was processed and every match of every healthy file is in
\* the result, whatever the other files did.
C2_FileFailureIsolated ==
    /\ (pc = "returned" /\ ret.op \in {"search", "search_parallel"}
            /\ ret.kind # "ok")
       => \/ ret.kind = "SearchError" /\ ret.query = <<>>
          \/ /\ ret.kind \in {"ConfigurationError", "FileAccessError"}
             /\ ret.scans = 1
             /\ Dir(disk).root = "notdir" \/ Dir(disk).listFailAt # 0
    /\ (FreshReturned /\ Len(ret.results) < config.max_results)
       => /\ ret.parsed = IndexedNames
          /\ \A i \in 1..Len(indexer.index) :
                Healthy(indexer.index[i])
                => \A k \in 1..Len(MatchesOf(indexer.index[i], ret.query)) :
                      InSeq(MatchesOf(indexer.index[i], ret.query)[k],
                            ret.results)

\* a run below the cap over an index with a failing file in front of a
\* healthy file that has a match
C2_Witness ==
    /\ FreshReturned
    /\ Len(ret.results) < config.max_results
    /\ \E i, j \in 1..Len(indexer.index) :
          /\ i < j
          /\ ~Healthy(indexer.index[i])
          /\ Healthy(indexer.index[j])
          /\ MatchesOf(indexer.index[j], ret.query) # <<>>

----------------------------------------------------------------------------
(* C3 *)

\* the parser of the file of this index entry raises during the search
FailsInSearch(info, query) == SearchFile(disk, info, query, config).error # "none"

\* C3: a file whose parser fails during a search, at whatever record,
\* contributes no match to the returned result nor to the cached entry, and a
\* search in which every file fails returns an empty result with
\* total_matches = 0.
C3_FailedFileContributesNothing ==
    FreshReturned =>
        /\ \A i \in 1..Len(indexer.index) :
              FailsInSearch(indexer.index[i], ret.query)
              => \A k \in 1..Len(ret.results) :
                    /\ ret.results[k].file_name # indexer.index[i].name
                    /\ cache[ret.query][k].file_name # indexer.index[i].name
        /\ (\A i \in 1..Len(indexer.index) :
                FailsInSearch(indexer.index[i], ret.query))
           => ret.results = <<>> /\ ret.total_matches = 0

----------------------------------------------------------------------------
(* C4 *)

\* C4: a search or search_parallel call with an empty or whitespace-only
\* query ends with SearchError having scanned no directory, run no parser and
\* submitted no unit, and leaves the index (entries and staleness) and the
\* result cache as they were.
C4_EmptyQueryFailsBeforeIO ==
    [][\A query \in RawQueries :
          (Blank(query)
             /\ (Search(query)
                   \/ \E workers \in 0..MaxWorkers :
                         SearchParallel(query, workers)))
          => /\ ret'.kind = "SearchError"
             /\ ret'.scans = 0
             /\ ret'.parsed = {}
             /\ pc' = "returned"
             /\ UNCHANGED <<indexer, cache, par>>]_vars

\* a whitespace-only query was refused by search_parallel while the cache
\* held entries and the directory could not even be scanned
C4_Witness ==
    /\ pc = "returned"
    /\ ret.op = "search_parallel"
    /\ ret.kind = "SearchError"
    /\ DOMAIN cache # {}
    /\ Dir(disk).root = "notdir"
    /\ par = NoPar

----------------------------------------------------------------------------
(* C5 *)

\* C5: when search(q) returns and the call before it was a search(q) that
\* returned too, both returned the same sequence, whatever happened to the
\* files in between.
C5_SearchTwiceSameResult ==
    (pc = "returned" /\ ret.op = "search" /\ ret.kind = "ok"
        /\ prev.set /\ prev.query = ret.query)
    => ret.results = prev.results

\* the second of two searches in a row returned a non-empty list although a
\* search from scratch on the files as they are now finds something else
C5_Witness ==
    /\ pc = "returned" /\ ret.op = "search" /\ ret.kind = "ok"
    /\ prev.set /\ prev.query = ret.query
    /\ ret.results # <<>>
    /\ LET scratch == SearchOutcome(ret.query,
                                    [index |-> <<>>, is_stale |-> TRUE],
                                    EmptyCache, disk, config).ret
       IN  scratch.kind # "ok" \/ scratch.results # ret.results

----------------------------------------------------------------------------
(* C6 *)

\* C6: in every reachable state, a search or search_parallel call whose
\* normalized query is in the result cache returns having scanned no
\* directory and run no parser, and leaves the index as it was.
C6_CacheHitDoesNoIO ==
    [][\A query \in RawQueries :
          (~Blank(query) /\ Strip(query) \in DOMAIN cache
             /\ (Search(query)
                   \/ \E workers \in 0..MaxWorkers :
                         SearchParallel(query, workers)))
          => /\ ret'.kind = "ok"
             /\ ret'.hit
             /\ ret'.scans = 0
             /\ ret'.parsed = {}
             /\ pc' = "returned"
             /\ UNCHANGED <<indexer, par>>]_vars

\* a cache hit of search_parallel while the root was no directory: a scan
\* would have raised
C6_Witness ==
    /\ pc = "returned"
    /\ ret.op = "search_parallel"
    /\ ret.kind = "ok"
    /\ ret.hit
    /\ ret.results # <<>>
    /\ Dir(disk).root = "notdir"

----------------------------------------------------------------------------
(* C7 *)

\* what search returns on a coordinator of the same configuration with an
\* empty cache, over the files as they are now
SequentialFromScratch(query) ==
    SearchOutcome(query, [index |-> <<>>, is_stale |-> TRUE], EmptyCache,
                  disk, config).ret

\* C7: over a fixed file set whose matches for the query number fewer than
\* max_results, a search_parallel run from an empty cache returns the same
\* matches as a search run from an empty cache, as a multiset, for every
\* worker count and completion order.
C7_ParallelSameMultiset ==
    (FreshReturned /\ ret.op = "search_parallel" /\ IndexCurrent
        /\ Len(AllMatches(ret.query)) < config.max_results)
    => /\ SequentialFromScratch(ret.query).kind = "ok"
       /\ SeqToBag(ret.results)
            = SeqToBag(SequentialFromScratch(ret.query).results)

\* a parallel run below the cap returned matches of two files in another
\* order than the sequential run does
C7_Witness ==
    /\ FreshReturned /\ ret.op = "search_parallel" /\ IndexCurrent
    /\ Len(AllMatches(ret.query)) < config.max_results
    /\ Len(ret.results) >= 2
    /\ ret.results # SequentialFromScratch(ret.query).results

----------------------------------------------------------------------------
(* C8 *)

\* the accumulated match count of the search_parallel call in progress has
\* reached max_results
CapReached == pc \in {"cancel", "shutdown"}

\* C8: in search_parallel, once the accumulated match count has reached
\* max_results, a unit that has not started never starts (it stays unstarted
\* until it is cancelled, and cancelled from then on), a running unit keeps
\* running or finishes, the accumulator only ever shrinks to a prefix of
\* itself, and when the cancel loop is over no unit is left unstarted and the
\* accumulator holds exactly max_results matches.
C8_CapCancelsUnstarted ==
    [][(CapReached /\ CapReached')
       => /\ \A u \in Units :
               /\ par.fut[u] \in {"pending", "cancelled"}
                  => par'.fut[u] \in {"pending", "cancelled"}
               /\ par.fut[u] = "cancelled" => par'.fut[u] = "cancelled"
               /\ par.fut[u] = "running"
                  => par'.fut[u] \in {"running", "finished"}
          /\ \E n \in 0..Len(par.all_results) :
                par'.all_results = SubSeq(par.all_results, 1, n)
          /\ pc' = "shutdown"
             => /\ Len(par'.all_results) = config.max_results
                /\ \A u \in Units : par'.fut[u] # "pending"]_vars

----------------------------------------------------------------------------
(* C9 *)

\* no parser failed in the files the call that has just returned processed
NoParserFailed ==
    \A i \in 1..Len(indexer.index) :
        indexer.index[i].name \in ret.parsed
        => ~FailsInSearch(indexer.index[i], ret.query)

\* C9: when no file's parser fails, a search call on an empty cache returns
\* the first max_results elements of the concatenation, in index order, of
\* each indexed file's matches in ascending record order, and the whole
\* concatenation when it is shorter.
C9_SequentialIsPrefixOfConcatenation ==
    (FreshReturned /\ ret.op = "search" /\ NoParserFailed)
    => ret.results = Truncate(AllMatches(ret.query), config.max_results)

\* a search with no failure cut the concatenation inside the second file
\* that has matches
C9_Witness ==
    /\ FreshReturned /\ ret.op = "search" /\ NoParserFailed
    /\ Len(AllMatches(ret.query)) > config.max_results
    /\ Len(ret.results) >= 2
    /\ ret.results[1].file_name # ret.results[2].file_name

----------------------------------------------------------------------------
(* C10 *)

\* C10: in the list search_parallel returns, two matches of the same file
\* stand in strictly ascending record-number order, whatever the completion
\* order and whether or not the cap cut the list.
C10_WithinFileOrderParallel ==
    (SearchReturned /\ ret.op = "search_parallel")
    => \A i, j \in 1..Len(ret.results) :
          (i < j /\ ret.results[i].file_name = ret.results[j].file_name)
          => ret.results[i].line_number < ret.results[j].line_number

\* a parallel run cut by the cap returned two matches of one file
C10_Witness ==
    /\ FreshReturned /\ ret.op = "search_parallel"
    /\ Len(AllMatches(ret.query)) > config.max_results
    /\ \E i, j \in 1..Len(ret.results) :
          /\ i < j
          /\ ret.results[i].file_name = ret.results[j].file_name

----------------------------------------------------------------------------
(* C11 *)

\* C11: clear_cache leaves the result cache empty and the File Index stale,
\* and the search or search_parallel call that follows it, whatever its
\* (non-blank) query and whatever happened to the directory meanwhile, is no
\* cache hit and scans the root directory once; search then returns what a
\* new coordinator computes from the directory as it is now, and
\* search_parallel submits one unit per file of the new scan.
C11_ClearCacheForcesRescan ==
    [][/\ ClearCache => (cache' = EmptyCache /\ indexer'.is_stale)
       /\ \A query \in RawQueries :
            (prev.cleared /\ ~QueryIsEmpty(query))
            => /\ Search(query)
                  => /\ ~ret'.hit /\ ret'.scans = 1
                     /\ ret' = SequentialFromScratch(query)
               /\ \A workers \in 0..MaxWorkers :
                    SearchParallel(query, workers)
                    => IF pc' = "collect"
                       THEN /\ par'.scans = 1
                            /\ IndexCurrent'
                            /\ par'.files = indexer'.index
                            /\ \A u \in 1..Len(par'.files) :
                                  par'.fut[u] = "pending"
                       ELSE ret'.kind # "ok" /\ ret'.scans = 1]_vars

\* the search that followed clear_cache rescanned a directory and found
\* matches there
C11_Witness ==
    /\ prev.cleared
    /\ SearchReturned /\ ret.op = "search"
    /\ ~ret.hit /\ ret.scans = 1
    /\ ret.results # <<>>

----------------------------------------------------------------------------
(* C12 *)

\* C12: for every content of a TEXT or SQL file, the memory-mapped reader and
\* the buffered reader yield the same sequence of (record number, content)
\* pairs.
C12_ReadersAgree ==
    rd.done = {"mmap", "standard"} => rd.mmap = rd.standard

----------------------------------------------------------------------------
(* C13 *)

\* a TextParser or SQLParser has been run on the file
TextParsed == rd.parse.parser \in {"TextParser", "SQLParser"}

\* C13: the TEXT or SQL parser yields a match numbered n exactly when the
\* query is a substring of line n, both case-folded when case_sensitive is
\* false and both unchanged when it is true; so query "A" matches the line
\* "a" when case_sensitive is false and not when it is true.
C13_TextMatchIsSubstring ==
    TextParsed =>
      LET p == rd.parse IN
      \A n \in 1..Len(p.records) :
         /\ (\E k \in 1..Len(p.results) : p.results[k].line_number = n)
            <=> IF p.case_sensitive
                THEN Contains(p.query, p.records[n])
                ELSE Contains(FoldStr(p.query), FoldStr(p.records[n]))
         /\ (p.query = <<"A">> /\ p.records[n] = <<"a">>)
            => ((\E k \in 1..Len(p.results) : p.results[k].line_number = n)
                <=> ~p.case_sensitive)

\* query "A" matched the second line, "a", of a file whose first line does
\* not match, with case_sensitive off
C13_Witness ==
    /\ TextParsed
    /\ rd.parse.query = <<"A">> /\ ~rd.parse.case_sensitive
    /\ Len(rd.parse.records) = 2
    /\ rd.parse.records[1] = <<>> /\ rd.parse.records[2] = <<"a">>
    /\ Len(rd.parse.results) = 1
    /\ rd.parse.results[1].line_number = 2

----------------------------------------------------------------------------
(* C14 *)

\* a CSVParser has been run on the file
CsvParsed == rd.parse.parser = "CSVParser"

\* the parser yielded a match numbered n
CsvMatched(n) ==
    \E k \in 1..Len(rd.parse.results) : rd.parse.results[k].line_number = n

\* C14: every row csv.reader parses, the first included, is one record
\* numbered from 1; it is a match exactly when the query, case-folded with
\* the row unless case_sensitive, is a substring of the fields joined by a
\* comma and a space, and the match's content is that joined string.  So the
\* query "a, a" matches the row of the file a,a although the file holds no
\* space, and the query of one double quote does not match the file "a"
\* whose field is quoted.
C14_CsvMatchIsSubstringOfJoinedRow ==
    CsvParsed =>
      LET p == rd.parse IN
      /\ \A n \in 1..Len(p.records) :
            CsvMatched(n)
            <=> IF p.case_sensitive
                THEN Contains(p.query, JoinRow(p.records[n]))
                ELSE Contains(FoldStr(p.query), FoldStr(JoinRow(p.records[n])))
      /\ \A k \in 1..Len(p.results) :
            /\ p.results[k].line_number \in 1..Len(p.records)
            /\ p.results[k].content = JoinRow(p.records[p.results[k].line_number])
      /\ (rd.content = <<"a", ",", "a">> /\ p.query = <<"a", ",", " ", "a">>)
         => /\ Len(p.results) = 1
            /\ p.results[1].content = <<"a", ",", " ", "a">>
      /\ (rd.content = <<"\"", "a", "\"">> /\ p.query = <<"\"">>)
         => p.results = <<>>

\* the query "a, a" matched the second row of a file whose first row is "a"
C14_Witness ==
    /\ CsvParsed
    /\ rd.content = <<"a", LF, "a", ",", "a">> \/ rd.content = <<LF, "a", ",", "a">>
    /\ rd.parse.query = <<"a", ",", " ", "a">>
    /\ Len(rd.parse.results) = 1
    /\ rd.parse.results[1].line_number = 2

----------------------------------------------------------------------------
(* C15 *)

----------------------------------------------------------------------------
(* C16 *)

\* C16: a cache hit returns the cached list itself, with total_matches = its
\* length and files_searched = the number of entries the File Index holds at
\* the time of the hit.
C16_CacheHitStats ==
    (SearchReturned /\ ret.hit)
    => /\ ret.results = cache[ret.query]
       /\ ret.total_matches = Len(cache[ret.query])
       /\ ret.files_searched = Len(indexer.index)

\* a hit on a non-empty entry after the indexed files have gone from disk
C16_Witness ==
    /\ SearchReturned /\ ret.hit
    /\ ret.results # <<>>
    /\ ret.files_searched = 3
    /\ Dir(disk).root = "missing"

----------------------------------------------------------------------------
(* C17 *)

\* C17: a File Index is stale at construction and after invalidate; a read
\* (get_files, get_file, get_file_count, get_total_size) rescans the root
\* directory exactly when the index is stale; a read of an index that is not
\* stale leaves it as it is and answers from the stored entries whatever the
\* directory holds now; a refresh that succeeds leaves the index not stale;
\* and a read of a stale index that succeeds has scanned once and answers
\* from the directory as it is now.
C17_RescanExactlyWhenStale ==
    /\ indexer.is_stale
    /\ [][/\ IxInvalidate => indexer'.is_stale
          /\ (IxRefresh /\ ret'.kind = "ok") => ~indexer'.is_stale
          /\ \A op \in ReadOps, name \in LookupNames \cup {<<>>} :
               IxRead(op, name)
               => /\ ret'.scans = (IF indexer.is_stale THEN 1 ELSE 0)
                  /\ ~indexer.is_stale
                     => /\ indexer' = indexer
                        /\ ret'.kind = "ok"
                        /\ ret'.value = ReadValue(op, name, indexer.index)
                  /\ (indexer.is_stale /\ ret'.kind = "ok")
                     => /\ IndexCurrent'
                        /\ ~indexer'.is_stale
                        /\ ret'.value = ReadValue(op, name, indexer'.index)]_vars

\* get_files answered with entries, without a scan, although the root
\* directory is gone
C17_Witness ==
    /\ pc = "returned" /\ ret.op = "get_files" /\ ret.kind = "ok"
    /\ ret.scans = 0
    /\ Len(ret.value) = 3
    /\ Dir(disk).root = "missing"

----------------------------------------------------------------------------
(* C18 *)

\* C18: whatever refresh, invalidate and read calls came before, failed
\* refresh calls included, a read that returns successfully answers from the
\* complete entry set of the last scan that ran to completion: the index
\* then holds exactly that set.
C18_ReadsSeeOneCompleteScan ==
    (pc = "returned" /\ ret.op \in ReadOps /\ ret.kind = "ok")
    => /\ prev.complete
       /\ indexer.index = prev.scan
       /\ ret.value = ReadValue(ret.op, ret.name, prev.scan)

----------------------------------------------------------------------------
(* C19 *)

\* C19: refresh, called directly or by a read of a stale index, raises
\* ConfigurationError to its caller when the root exists and is no
\* directory, and FileAccessError when listing the directory raises an OS
\* error; the failed call does not mark the index fresh: its staleness is
\* what it was, so a stale index stays stale.
C19_RefreshFailures ==
    [][(IxRefresh \/ \E op \in ReadOps, name \in LookupNames \cup {<<>>} :
                        IxRead(op, name) /\ indexer.is_stale)
       => /\ Dir(disk).root = "notdir"
             => /\ ret'.kind = "ConfigurationError"
                /\ indexer'.is_stale = indexer.is_stale
          /\ (Dir(disk).root = "dir" /\ Dir(disk).listFailAt # 0)
             => /\ ret'.kind = "FileAccessError"
                /\ indexer'.is_stale = indexer.is_stale
          /\ ret'.kind = "ok" <=> ~(Dir(disk).root = "notdir"
                                      \/ (Dir(disk).root = "dir"
                                          /\ Dir(disk).listFailAt # 0))]_vars

\* a refresh of a stale index failed on a directory listing and the index is
\* still stale
C19_Witness ==
    /\ pc = "returned" /\ ret.op = "refresh"
    /\ ret.kind = "FileAccessError"
    /\ indexer.is_stale

----------------------------------------------------------------------------
(* C20 *)

\* the File Index as a scan of a missing root leaves it
EmptyFresh == [index |-> <<>>, is_stale |-> FALSE]

\* C20: when the root directory does not exist, the refresh a call makes on
\* a stale index raises nothing and leaves the index empty and not stale,
\* whatever entries it held: get_file_stats then reports 0 files, search
\* returns no match with files_searched = 0 and total_matches = 0, and
\* search_parallel submits no unit; and every search or search_parallel that
\* returns while the index is in that state returns no match with
\* files_searched = 0.
C20_MissingRootIsEmptyIndex ==
    [][/\ (pc = "idle" /\ Dir(disk).root = "missing" /\ indexer.is_stale)
          => /\ GetFileStats
                => /\ ret'.kind = "ok" /\ ret'.files_searched = 0
                   /\ indexer' = EmptyFresh
             /\ \A query \in RawQueries :
                  ~QueryIsEmpty(query)
                  => /\ Search(query)
                        => /\ ret'.kind = "ok" /\ ret'.scans = 1
                           /\ ret'.results = <<>>
                           /\ ret'.files_searched = 0
                           /\ ret'.total_matches = 0
                           /\ indexer' = EmptyFresh
                     /\ \A workers \in 0..MaxWorkers :
                          SearchParallel(query, workers)
                          => /\ pc' = "collect" /\ par'.files = <<>>
                             /\ indexer' = EmptyFresh
       /\ (SearchReturned /\ indexer = EmptyFresh)
          => /\ ret.results = <<>>
             /\ ret.files_searched = 0
             /\ ret.total_matches = 0]_vars

\* a search right after clear_cache found the root directory gone, scanned,
\* and returned nothing from an index that is now empty and not stale
C20_Witness ==
    /\ SearchReturned /\ ret.op = "search"
    /\ prev.cleared
    /\ Dir(disk).root = "missing"
    /\ ret.scans = 1 /\ ret.files_searched = 0 /\ ret.results = <<>>
    /\ indexer = EmptyFresh

----------------------------------------------------------------------------
(* C21 *)

\* C21: when the coordinator searches a TEXT or SQL file, the file is read
\* through the memory map exactly when its size exceeds the
\* use_mmap_threshold of the coordinator's SearchConfig, and through the
\* buffered reader otherwise; so a SearchConfig with another threshold makes
\* the coordinator read the same file with the other strategy.
C21_StrategyFollowsConfigThreshold ==
    rd.search # NoSearch
    => (rd.search.strategy = "mmap"
        <=> Len(rd.content) > config.use_mmap_threshold)

----------------------------------------------------------------------------
(* C22 *)

----------------------------------------------------------------------------
(* C23 *)

\* the format an extension selects once lower-cased, "none" for any other
FormatOf(sfx) ==
    IF LowerSuffix(sfx) = ".txt" THEN "TXT"
    ELSE IF LowerSuffix(sfx) = ".csv" THEN "CSV"
    ELSE IF LowerSuffix(sfx) = ".sql" THEN "SQL"
    ELSE "none"

\* C23: the parser of a file is selected by its lower-cased extension alone:
\* .txt, .csv and .sql give TEXT, CSV and SQL matches, whatever the case of
\* the extension, and any other extension gives none.  A file of another
\* extension that is in the index because the recognized extensions contain
\* it does not make search or search_parallel raise: a call raises only for
\* a blank query or a failed scan, and the file contributes zero matches.
C23_ParserByLowercaseExtension ==
    /\ FreshReturned =>
         \A k \in 1..Len(ret.results) :
            /\ FormatOf(ret.results[k].file_name[2]) # "none"
            /\ ret.results[k].match_type =
                  FormatOf(ret.results[k].file_name[2])
    /\ (pc = "returned" /\ ret.op \in {"search", "search_parallel"}
        /\ ret.kind # "ok")
       => \/ ret.kind = "SearchError" /\ Blank(ret.query)
          \/ /\ indexer.is_stale
             /\ ret.kind = Refresh(indexer, disk,
                                   config.supported_extensions).error

\* d.log is indexed and its one line holds the query, and the call returned
\* matches of other files only
C23_Witness ==
    /\ FreshReturned
    /\ <<"d", ".log">> \in IndexedNames
    /\ <<"d", ".log">> \in ret.parsed
    /\ \E e \in Lookup(disk, <<"d", ".log">>) :
          \E i \in 1..Len(e.recs) :
             RecordMatches("TextParser", e.recs[i], ret.query,
                           config.case_sensitive)
    /\ ret.results # <<>>

----------------------------------------------------------------------------
(* C24 *)

\* the first n characters and the last m characters of q are whitespace
OuterWhitespace(q, n, m) ==
    /\ n + m <= Len(q)
    /\ \A i \in 1..n : IsSpace(q[i])
    /\ \A i \in (Len(q) - m + 1)..Len(q) : IsSpace(q[i])

\* q1 and q2 differ only in leading and trailing whitespace
DiffersOnlyInOuterWhitespace(q1, q2) ==
    \E n1, m1 \in 0..Len(q1), n2, m2 \in 0..Len(q2) :
       /\ OuterWhitespace(q1, n1, m1)
       /\ OuterWhitespace(q2, n2, m2)
       /\ SubSeq(q1, n1 + 1, Len(q1) - m1) = SubSeq(q2, n2 + 1, Len(q2) - m2)

\* a search for q would now be answered from the cache with these results,
\* leaving the cache as it is
WouldHit(q, results, ix, ch, d) ==
    LET o == SearchOutcome(q, ix, ch, d, config) IN
    /\ o.ret.kind = "ok" /\ o.ret.hit
    /\ o.ret.results = results
    /\ o.cache = ch

\* C24: the cache key and the string matched against records is the query
\* without its surrounding whitespace: a query that differs from another
\* only in leading or trailing whitespace gives the same matches, and once
\* one of the two has been searched, by search or search_parallel, a search
\* for the other is a cache hit on the same single entry.
C24_SurroundingWhitespaceIgnored ==
    [][(pc # "returned" /\ pc' = "returned" /\ ret'.kind = "ok"
        /\ ret'.op \in {"search", "search_parallel"})
       => \A q2 \in RawQueries :
             DiffersOnlyInOuterWhitespace(ret'.raw, q2) =>
                /\ WouldHit(q2, ret'.results, indexer', cache', disk')
                /\ ret'.op = "search" =>
                      ret'.results =
                         SearchOutcome(q2, indexer, cache, disk,
                                       config).ret.results]_vars

\* search(" a ") has been answered from the one cache entry, stored under "a"
C24_Witness ==
    /\ pc = "returned" /\ ret.op = "search" /\ ret.kind = "ok"
    /\ ret.raw = <<" ", "a", " ">>
    /\ ret.hit
    /\ DOMAIN cache = {<<"a">>}
    /\ ret.results = cache[<<"a">>]
    /\ ret.results # <<>>

----------------------------------------------------------------------------
(* C25 *)

\* the error a scan of directory image d fails with, "none" when it succeeds
ScanFailure(d) ==
    IF Dir(d).root = "notdir" THEN "ConfigurationError"
    ELSE IF Dir(d).root = "dir" /\ Dir(d).listFailAt # 0 THEN "FileAccessError"
    ELSE "none"

\* C25: when the index is stale and the scan of the directory fails, a
\* search or search_parallel call with a query that is not blank raises the
\* scan's error, ConfigurationError for a root that is no directory and
\* FileAccessError for a listing that raises an OS error; it returns no
\* result list, and search_parallel submits no unit.
C25_ScanFailurePropagates ==
    [][(pc = "idle" /\ indexer.is_stale /\ ScanFailure(disk) # "none")
       => /\ pc' # "collect"
          /\ (ret'.op \in {"search", "search_parallel"} /\ ~Blank(ret'.raw))
             => ret'.kind = ScanFailure(disk)]_vars

\* search_parallel("a") raised FileAccessError from a listing that broke off
\* after its first entry
C25_Witness ==
    /\ pc = "returned" /\ ret.op = "search_parallel"
    /\ ret.raw = <<"a">>
    /\ ret.kind = "FileAccessError"
    /\ disk = "D6"
    /\ indexer.is_stale

----------------------------------------------------------------------------
(* C26 *)

\* a search_parallel call has submitted its units and not yet returned
InParallel == pc \in {"collect", "cancel", "shutdown"}

\* C26: search_parallel submits exactly one unit per indexed file, so no
\* file is scanned by two units; at every moment the number of running units
\* is at most the worker count in effect, which is the per-call workers
\* argument when one is given and the configured parallel_workers otherwise;
\* and no worker runs two units at once.
C26_OneUnitPerFileWithinWorkers ==
    InParallel =>
       /\ par.files = indexer.index
       /\ DOMAIN par.fut = 1..Len(indexer.index)
       /\ \A u, v \in Units : par.files[u].name = par.files[v].name => u = v
       /\ par.num_workers = IF par.workers # 0 THEN par.workers
                            ELSE config.parallel_workers
       /\ Cardinality(Running) <= par.num_workers
       /\ \A u \in Running : par.worker[u] \in 1..par.num_workers
       /\ \A u, v \in Running : par.worker[u] = par.worker[v] => u = v

\* with workers=1 and three files indexed, one unit runs while another has
\* finished and the third still waits for the worker
C26_Witness ==
    /\ InParallel
    /\ par.workers = 1
    /\ Len(par.files) = 3
    /\ Cardinality(Running) = 1
    /\ \E u \in Units : par.fut[u] = "pending"
    /\ \E u \in Units : par.fut[u] = "finished"

----------------------------------------------------------------------------
(* C27 *)

\* C27: in search_parallel the accumulator is mutated under mutual
\* exclusion.  Every step that changes it is a step of the collecting thread
\* alone: either it appends the whole result list of one finished unit that
\* was not collected before, or it truncates the list after the cancels, or
\* the call returns; in none of them does a worker unit start, finish or
\* hand over a result, so no two appends overlap and no worker unit reads or
\* writes the accumulator while an append is in progress.
C27_AccumulatorExclusive ==
    [][(InParallel /\ par.all_results' # par.all_results)
       => \/ pc' = "returned"
          \/ /\ par.res' = par.res
             /\ \A u \in Units :
                   (par.fut[u] = "running" \/ par.fut'[u] = "running")
                   => par.fut'[u] = par.fut[u]
             /\ \/ /\ pc = "collect"
                   /\ \E u \in Units \ par.done :
                         /\ par.fut[u] = "finished"
                         /\ par.done' = par.done \cup {u}
                         /\ par.all_results' = par.all_results \o par.res[u]
                \/ /\ pc = "cancel"
                   /\ par.all_results' =
                         SubSeq(par.all_results, 1, config.max_results)]_vars

\* the accumulator holds the matches of one unit while a second unit has
\* finished and waits to be collected and a third is still running
C27_Witness ==
    /\ pc = "collect"
    /\ par.all_results # <<>>
    /\ Running # {}
    /\ \E u \in Units \ par.done : par.fut[u] = "finished" /\ par.res[u] # <<>>

----------------------------------------------------------------------------
(* C28 *)

\* the number of matches the first i indexed files give for the query of
\* the call that returned, each file capped by itself
RECURSIVE CountThrough(_)
CountThrough(i) ==
    IF i = 0 THEN 0
    ELSE CountThrough(i - 1)
         + Len(SearchFile(disk, indexer.index[i], ret.query, config).results)

\* C28: in a sequential search, once the accumulated count has reached
\* max_results after some file, no later file in index order is opened or
\* parsed; the files before that point are all processed.
C28_NoFileAfterCap ==
    (FreshReturned /\ ret.op = "search") =>
       \A i \in 1..Len(indexer.index) :
          indexer.index[i].name \in ret.parsed
          <=> CountThrough(i - 1) < config.max_results

\* the first file alone filled the cap and the later files, one of which
\* holds the query too, were not processed
C28_Witness ==
    /\ FreshReturned /\ ret.op = "search"
    /\ Len(indexer.index) = 3
    /\ CountThrough(1) >= config.max_results
    /\ ret.parsed = {indexer.index[1].name}
    /\ CountThrough(3) > CountThrough(1)

----------------------------------------------------------------------------
(* C29 *)

\* the records of the searched file, as its reader yields them
SearchedLines == ReadLines(rd.content, MMAP_THRESHOLD_BYTES)

\* every match the parser would yield if it were run to the end of the file
SearchedMatches ==
    ParseLines(rd.search.parser, <<"f", ".txt">>, SearchedLines,
               rd.search.query, config.case_sensitive, 1)

\* C29: within one file the coordinator stops pulling from the parser as
\* soon as the file has given max_results matches: the last record read is
\* the one holding the max_results-th match, and the unit returns the first
\* max_results matches of the file, never more; a file with fewer matches is
\* read to its end.
C29_StopsPullingAtCap ==
    rd.search # NoSearch =>
       /\ Len(rd.search.results) <= config.max_results
       /\ \A k \in 1..Len(rd.search.results) :
             rd.search.results[k].line_number = SearchedMatches[k].line_number
       /\ IF Len(SearchedMatches) >= config.max_results
          THEN /\ Len(rd.search.results) = config.max_results
               /\ rd.search.read =
                     SearchedMatches[config.max_results].line_number
          ELSE /\ Len(rd.search.results) = Len(SearchedMatches)
               /\ rd.search.read = Len(SearchedLines)

\* the file has two records holding the query and max_results is 1: the
\* first was read and returned, the second was not read
C29_Witness ==
    /\ rd.search # NoSearch
    /\ config.max_results = 1
    /\ Len(SearchedMatches) = 2
    /\ Len(rd.search.results) = 1
    /\ rd.search.read = 1
    /\ Len(SearchedLines) = 2

----------------------------------------------------------------------------
(* C30 *)

\* the entries of the root that a scan has to index: regular files with a
\* recognized extension, compared in lower case, whose stat() succeeds
Indexable ==
    {i \in 1..Len(Dir(disk).entries) :
        /\ Dir(disk).entries[i].isFile
        /\ LowerSuffix(Dir(disk).entries[i].name[2])
              \in config.supported_extensions
        /\ Dir(disk).entries[i].statOk}

\* C30: after a refresh that succeeded, the index holds exactly one entry,
\* with the file's size, for each immediate entry of the root that is a
\* regular file, has a recognized extension and could be stat-ed; entries
\* whose stat fails are left out and do not make the refresh fail, which it
\* does only when the root is no directory or the listing breaks; and the
\* count returned is the number of index entries.
C30_IndexIsTheIndexableEntries ==
    (pc = "returned" /\ ret.op = "refresh") =>
       /\ ret.kind = "ok" <=> ScanFailure(disk) = "none"
       /\ ret.kind = "ok" =>
            /\ IndexedNames = {Dir(disk).entries[i].name : i \in Indexable}
            /\ Len(indexer.index) = Cardinality(Indexable)
            /\ \A k \in 1..Len(indexer.index) :
                  \E i \in Indexable :
                     /\ Dir(disk).entries[i].name = indexer.index[k].name
                     /\ Dir(disk).entries[i].size = indexer.index[k].size_bytes
            /\ ret.value = Len(indexer.index)

\* a refresh returned 3 for a root that also holds a subdirectory named like
\* a text file, a file of another extension and a text file whose stat fails
C30_Witness ==
    /\ pc = "returned" /\ ret.op = "refresh" /\ ret.kind = "ok"
    /\ ret.value = 3
    /\ \E i \in 1..Len(Dir(disk).entries) :
          LET e == Dir(disk).entries[i] IN
          e.isFile /\ ~e.statOk /\ e.name[2] \in config.supported_extensions
    /\ \E i \in 1..Len(Dir(disk).entries) :
          LET e == Dir(disk).entries[i] IN
          ~e.isFile /\ e.name[2] \in config.supported_extensions
    /\ \E i \in Indexable :
          Dir(disk).entries[i].name[2] \notin config.supported_extensions

----------------------------------------------------------------------------
(* C31 *)

\* the line, without its terminator, that a TEXT or SQL match was made from
MatchedLine(m) ==
    LET e == CHOOSE x \in Lookup(disk, m.file_name) : x.isFile IN
    e.recs[m.line_number]

\* a TEXT or SQL match of the call that returned
TextMatches ==
    {k \in 1..Len(ret.results) : ret.results[k].match_type \in {"TXT", "SQL"}}

\* C31 as stated: the content of every match from a TEXT or SQL file is the
\* matched line with its line terminator removed and nothing else changed,
\* leading and trailing spaces or tabs included.
C31_ContentIsLineUnchanged ==
    FreshReturned =>
       \A k \in TextMatches :
          ret.results[k].content = MatchedLine(ret.results[k])

\* C31 amended: the content of every match from a TEXT or SQL file is the
\* matched line without its line terminator and without its leading and
\* trailing whitespace; what lies between is unchanged.
C31_ContentIsLineTrimmed ==
    FreshReturned =>
       \A k \in TextMatches :
          LET line == MatchedLine(ret.results[k])
              content == ret.results[k].content
          IN  /\ \E n, m \in 0..Len(line) :
                    /\ OuterWhitespace(line, n, m)
                    /\ content = SubSeq(line, n + 1, Len(line) - m)
              /\ content # <<>> =>
                    ~IsSpace(content[1]) /\ ~IsSpace(content[Len(content)])

\* the line " A" of a.txt matched and its match has the content "A"
C31_Witness ==
    /\ FreshReturned
    /\ \E k \in TextMatches :
          /\ MatchedLine(ret.results[k]) = <<" ", "A">>
          /\ ret.results[k].content = <<"A">>

----------------------------------------------------------------------------
(* C32 *)

\* the failure that processing the file of an index entry ends in, "none"
\* when it is processed to its end or to the cap: an extension without a
\* parser, a file that is gone, or a read error met before max_results
\* matches were found
FailureOf(info) ==
    IF GetParserForFile(info.name) = "ConfigurationError" THEN "config"
    ELSE IF OnDisk(info) = {} THEN "os"
    ELSE LET e == CHOOSE x \in OnDisk(info) : TRUE IN
         IF e.failAt # 0
            /\ Len(MatchesOf(info, ret.query)) < config.max_results
         THEN e.failKind ELSE "none"

\* the number of notices of this severity that name the file
Notices(name, level) == CopiesIn([file |-> name, level |-> level], ret.log)

\* C32: during one search or search_parallel call, each file whose
\* processing was started and fails gives exactly one log notice naming it,
\* a warning when the failure is a FileAccessError, ParsingError or
\* ConfigurationError and an error when it is an unanticipated exception;
\* a file processed without failure, or never started, gives none.
C32_OneNoticePerFailedFile ==
    FreshReturned =>
       \A i \in 1..Len(indexer.index) :
          LET info == indexer.index[i]
              failed == info.name \in ret.parsed /\ FailureOf(info) # "none"
              severe == FailureOf(info) = "other"
          IN  /\ Notices(info.name, "warning")
                    = IF failed /\ ~severe THEN 1 ELSE 0
              /\ Notices(info.name, "error")
                    = IF failed /\ severe THEN 1 ELSE 0

\* a parallel search over three failing files logged two warnings and one
\* error
C32_Witness ==
    /\ FreshReturned /\ ret.op = "search_parallel"
    /\ Len(indexer.index) = 3
    /\ BagCardinality(ret.log) = 3
    /\ \E i \in 1..3 : Notices(indexer.index[i].name, "error") = 1
    /\ \E i \in 1..3 : FailureOf(indexer.index[i]) = "csv"
                       /\ Notices(indexer.index[i].name, "warning") = 1

----------------------------------------------------------------------------
(* C33 *)

\* C33: if the pool starts pending units and every started unit finishes
\* its file, a search_parallel call that has submitted its units eventually
\* returns, whatever the number of files and workers, whether or not the cap
\* is reached and whether or not units fail; the cancelled units are not
\* waited for.
C33_ParallelReturns ==
    InParallel ~> (pc = "returned" /\ ret.op = "search_parallel")

\* a call returned after the cap was reached and a unit that had not
\* started was cancelled and never ran
C33_Witness ==
    /\ FreshReturned /\ ret.op = "search_parallel"
    /\ Len(ret.results) = config.max_results
    /\ \E i \in 1..Len(indexer.index) : indexer.index[i].name \notin ret.parsed

----------------------------------------------------------------------------
(* C34 *)

\* the submitted units that have neither completed nor been cancelled
Unsettled == {u \in Units : par.fut[u] \in {"pending", "running"}}

\* C34: at the step in which search_parallel returns, every submitted unit
\* has completed or was cancelled before it started: none is running or
\* pending.
C34_NoUnitLeftAtReturn ==
    [][(InParallel /\ pc' = "returned") => Unsettled = {}]_vars

\* a call about to return after the cap: one unit was cancelled before it
\* started, another finished after the loop was left and was never collected
C34_Witness ==
    /\ pc = "shutdown" /\ PoolDrained
    /\ \E u \in Units : par.fut[u] = "cancelled"
    /\ \E u \in Units : par.fut[u] = "finished" /\ u \notin par.done

----------------------------------------------------------------------------
(* C35 *)

\* C35: in every state reachable through the Coordinator's operations, with
\* scans that succeed or fail, a result cache that holds at least one entry
\* goes with a File Index that is not stale.
C35_CacheImpliesFreshIndex ==
    cache # EmptyCache => ~indexer.is_stale

\* get_file_stats answered from the index without a scan while the cache
\* held the results of two queries
C35_Witness ==
    /\ pc = "returned" /\ ret.op = "get_file_stats" /\ ret.kind = "ok"
    /\ ret.scans = 0
    /\ Cardinality(DOMAIN cache) >= 2

----------------------------------------------------------------------------
(* C36 *)

\* the number of indexable files a scan of the directory would find now
CountOnDisk ==
    Len(Refresh(indexer, disk, config.supported_extensions).indexer.index)

\* C36: whatever the operations and the filesystem changes before it, a
\* cache hit for q reports as files_searched the value reported by the fresh
\* run that stored the entry for q.
C36_HitReportsCreatingCount ==
    (SearchReturned /\ ret.hit) =>
        /\ ret.query \in DOMAIN created
        /\ ret.files_searched = created[ret.query].files_searched

\* a hit returned after the directory changed: a scan would now find another
\* number of files than the hit reports
C36_Witness ==
    /\ SearchReturned /\ ret.hit
    /\ ret.files_searched = created[ret.query].files_searched
    /\ CountOnDisk # ret.files_searched

----------------------------------------------------------------------------
(* C37 *)

\* the content holds the query, compared as the configuration says
ContentHolds(query, content) ==
    IF config.case_sensitive
    THEN Contains(query, content)
    ELSE Contains(FoldStr(query), FoldStr(content))

\* C37: every match returned by search or search_parallel has a record
\* number of at least 1, names a file of the index the call worked on, and
\* has a content that contains the normalized query, both case-folded when
\* case_sensitive is false.
C37_MatchesAreWellFormed ==
    SearchReturned =>
       \A k \in 1..Len(ret.results) :
          LET m == ret.results[k] IN
          /\ m.line_number >= 1
          /\ m.file_name \in IndexedNames
          /\ ContentHolds(ret.query, m.content)

\* a call given a query with outer whitespace returned a match beyond the
\* first record whose content holds the query only after case-folding
C37_Witness ==
    /\ SearchReturned /\ ret.raw # ret.query
    /\ \E k \in 1..Len(ret.results) :
          /\ ret.results[k].line_number >= 2
          /\ ~Contains(ret.query, ret.results[k].content)
          /\ ContentHolds(ret.query, ret.results[k].content)

----------------------------------------------------------------------------
(* C38 *)

\* the other execution mode
OtherMode(op) == IF op = "search" THEN "search_parallel" ELSE "search"

\* C38: both modes share the cache under the same key. A call made while
\* the other mode's run has an entry stored for its normalized query returns
\* the list that run returned, in that run's order, and a search_parallel
\* call does so without submitting a unit: no call reaches the pool for a
\* query that has an entry.
C38_CacheSharedByBothModes ==
    [][pc = "idle" =>
         /\ pc' = "collect" => par'.query \notin DOMAIN created
         /\ (/\ pc' = "returned"
             /\ ret'.op \in {"search", "search_parallel"}
             /\ ret'.query \in DOMAIN created
             /\ created[ret'.query].op = OtherMode(ret'.op))
            => /\ ret'.kind = "ok" /\ ret'.hit
               /\ ret'.results = created[ret'.query].results
               /\ par' = NoPar
               /\ cache' = cache]_vars

\* search returned from the cache the list a parallel run had stored, in an
\* order of completion that is not the order a sequential run gives
C38_Witness ==
    /\ SearchReturned /\ ret.op = "search" /\ ret.hit
    /\ created[ret.query].op = "search_parallel"
    /\ ret.results = created[ret.query].results
    /\ IndexCurrent
    /\ ret.results # SearchLoop(disk, indexer.index, ret.query, config, 1,
                                <<>>, {}).results

\* search_parallel returned the list a sequential run had stored
C38_WitnessParallelHit ==
    /\ SearchReturned /\ ret.op = "search_parallel" /\ ret.hit
    /\ created[ret.query].op = "search"
    /\ ret.results = created[ret.query].results
    /\ Len(ret.results) >= 2

----------------------------------------------------------------------------
(* C39 *)

\* the call that has just returned is a search or search_parallel that raised
SearchRaised ==
    /\ pc = "returned"
    /\ ret.op \in {"search", "search_parallel"}
    /\ ret.kind \notin {"ok", "none"}

\* C39: a search or search_parallel call that raises, for an empty query or
\* for a failed directory scan, leaves the cache as it was; a failed scan
\* leaves the index stale, nothing but a call changes the index afterwards,
\* and the next search, search_parallel or get_file_stats call made on a
\* stale index scans the directory again.
C39_FailedCallLeavesCacheAndStaleIndex ==
    [][/\ (pc = "idle" /\ SearchRaised') =>
             /\ cache' = cache
             /\ ret'.kind # "SearchError" =>
                   ret'.scans = 1 /\ indexer'.is_stale
       /\ (pc = "returned" \/ (pc = "idle" /\ pc' = "idle")) =>
             indexer' = indexer
       /\ (pc = "idle" /\ indexer.is_stale /\ pc' = "collect") =>
             par'.scans = 1
       /\ (/\ pc = "idle" /\ indexer.is_stale /\ pc' = "returned"
           /\ ret'.op \in {"search", "search_parallel", "get_file_stats"}
           /\ ret'.kind # "SearchError") =>
             ret'.scans = 1]_vars

\* search_parallel raised for a directory scan that failed after it had
\* indexed a file, and left the index stale and the cache empty
C39_Witness ==
    /\ SearchRaised /\ ret.op = "search_parallel"
    /\ ret.kind # "SearchError" /\ ret.scans = 1
    /\ indexer.is_stale /\ indexer.index # <<>>
    /\ cache = EmptyCache

\* search raised for an empty query while the cache held an entry
C39_WitnessEmptyQuery ==
    /\ SearchRaised /\ ret.op = "search" /\ ret.kind = "SearchError"
    /\ cache # EmptyCache

============================================================================
